---- MODULE Spec2Model ----
(***************************************************************************)
(* Real-time quote ingestion and alerting core of the stock portfolio      *)
(* tracker (backend/app/market, backend/app/monitor).                      *)
(*                                                                         *)
(* One record variable per component:                                      *)
(*   fh  FinnhubWSClient          (market/finnhub_ws_client.py)            *)
(*   fg  FugleWSClient            (market/fugle_ws_client.py)              *)
(*   rc  DynamicSubscription      (market/dynamic_subscription.py)         *)
(*   al  alert pipeline           (monitor/stock_monitor.py,               *)
(*                                 monitor/price_checker.py)               *)
(*   pl  PolygonFallback          (market/polygon_fallback.py)             *)
(*   qs  table market_data and the handlers that write it                  *)
(*   wm  high_watermark_price of a holding and the jobs that update it     *)
(*   ru  one call of a rule function of price_checker with its arguments   *)
(*   pp  passes of the alert pipeline started by the jobs and the endpoint *)
(*   rs  start(), the loop task and stop() of DynamicSubscription          *)
(*   qm  QuoteManager with its ShioajiClient (market/quote_manager.py,     *)
(*       market/shioaji_client.py)                                         *)
(*   dc  one provider client and the disconnect() calls made on it         *)
(*   ca  one call of a handler (a reconciler scan, a fallback poll, an     *)
(*       evaluation cycle) with the inputs it is made on and its result    *)
(*   pt  table price_targets and the importers that write it               *)
(* Each component has its own specification (SpecFinnhub, SpecFugle, ...)  *)
(* in which the other components do not move.  Fields whose name starts    *)
(* with h_ are history variables: they record what happened and are read   *)
(* only by the properties, never by the modelled code.                     *)
(***************************************************************************)
EXTENDS Integers, Sequences, FiniteSets, TLC

VARIABLES fh, fg, rc, al, pl, qs, wm, ru, pp, rs, qm, dc, ca, pt

vars == <<fh, fg, rc, al, pl, qs, wm, ru, pp, rs, qm, dc, ca, pt>>

\* ------------------------------------------------------------------
\* Bounds of the model
\* ------------------------------------------------------------------
\* upstream connection objects (WebSocketApp / SDK client) alive at once
MaxConns == 2
\* threading.Timer objects pending at once (Finnhub has no limit of its own)
MaxTimers == 2
\* the consecutive-reconnect counter h_n saturates here (2^(MaxN-1) >= 120)
MaxN == 8

Symbols == {"A", "B"}

\* a field or column that is missing (None / null)
Absent == -1000

Min(a, b) == IF a <= b THEN a ELSE b
Max(a, b) == IF a >= b THEN a ELSE b

RECURSIVE Pow2(_)
Pow2(n) == IF n <= 0 THEN 1 ELSE 2 * Pow2(n - 1)

\* ------------------------------------------------------------------
\* Upstream connection slots, shared shape for both WebSocket clients.
\*   "free"        no live connection object in this slot
\*   "connecting"  created, handshake not finished
\*   "open"        the provider accepted the socket
\*   "closing"     closed from our side, the close event is still to come
\* ------------------------------------------------------------------
ConnStates == {"free", "connecting", "open", "closing"}
Slots == 1..MaxConns
NoConns == [i \in Slots |-> "free"]
HasFree(conns) == \E i \in Slots : conns[i] = "free"
FreeSlot(conns) ==
    CHOOSE i \in Slots : conns[i] = "free" /\ \A j \in Slots : j < i => conns[j] /= "free"
Live(conns) == {i \in Slots : conns[i] \in {"connecting", "open"}}

\* ==================================================================
\* FinnhubWSClient
\* ==================================================================
Finnhub_RECONNECT_BASE_DELAY == 1
Finnhub_RECONNECT_MAX_DELAY == 60
Finnhub_RATE_LIMIT_BACKOFF == 120

FinnhubInit ==
    [ ws |-> 0,                      \* self._ws: 0 is None, else the slot of the WebSocketApp
      conns |-> NoConns,             \* run_forever threads
      connected |-> FALSE,
      should_run |-> FALSE,
      subscribed |-> {},
      reconnect_delay |-> Finnhub_RECONNECT_BASE_DELAY,
      timers |-> 0,                  \* started threading.Timer(delay, _do_reconnect)
      h_n |-> 0,                     \* reconnects scheduled since the last data message
      h_used |-> 0,                  \* delay handed to the last Timer
      h_rl |-> FALSE,                \* a rate-limit error was seen since the last data message
      h_ctx |-> "none" ]             \* thread that made the last write to the client's state

\* _start_ws_thread: a new WebSocketApp replaces self._ws and runs on a new thread
Finnhub_start_ws_thread(c) ==
    LET i == FreeSlot(c.conns)
    IN  [c EXCEPT !.ws = i, !.conns[i] = "connecting"]

\* _schedule_reconnect: no lock, no flag; every call starts a Timer
Finnhub_schedule_reconnect(c) ==
    [c EXCEPT !.timers = c.timers + 1,
              !.reconnect_delay = Min(c.reconnect_delay * 2, Finnhub_RECONNECT_MAX_DELAY),
              !.h_used = c.reconnect_delay,
              !.h_n = Min(c.h_n + 1, MaxN)]

\* the client after a write to its attributes made on thread ctx: "loop" is
\* the asyncio loop's thread, "ws" the thread of run_forever, "timer" the
\* thread of a reconnect Timer
Finnhub_written(c, ctx) == [c EXCEPT !.h_ctx = ctx]

\* connect()
Finnhub_connect ==
    /\ ~fh.connected
    /\ HasFree(fh.conns)
    /\ fh' = Finnhub_written(Finnhub_start_ws_thread([fh EXCEPT !.should_run = TRUE]), "loop")
    /\ UNCHANGED <<fg, rc, al, pl, qs, wm, ru, pp, rs, qm, dc, ca, pt>>

\* connect() while connected: early return
Finnhub_connect_noop ==
    /\ fh.connected
    /\ UNCHANGED vars

\* a disconnect() that keeps the queued subscriptions
Finnhub_disconnected_keeps_subscribed(c) ==
    [c EXCEPT !.should_run = FALSE,
              !.conns = [i \in Slots |->
                           IF i = c.ws /\ c.conns[i] \in {"connecting", "open"}
                           THEN "closing" ELSE c.conns[i]],
              !.connected = FALSE]

\* disconnect(): self._ws.close() makes the ws thread deliver on_close later
Finnhub_disconnected(c) ==
    [c EXCEPT !.should_run = FALSE,
              !.conns = [i \in Slots |->
                           IF i = c.ws /\ c.conns[i] \in {"connecting", "open"}
                           THEN "closing" ELSE c.conns[i]],
              !.connected = FALSE,
              !.subscribed = {}]

Finnhub_disconnect ==
    /\ fh' = Finnhub_written(Finnhub_disconnected(fh), "loop")
    /\ UNCHANGED <<fg, rc, al, pl, qs, wm, ru, pp, rs, qm, dc, ca, pt>>

\* subscribe(tickers): always recorded; sent only when connected (send errors are swallowed)
Finnhub_subscribe(T) ==
    /\ fh' = [fh EXCEPT !.subscribed = fh.subscribed \cup T, !.h_ctx = "loop"]
    /\ UNCHANGED <<fg, rc, al, pl, qs, wm, ru, pp, rs, qm, dc, ca, pt>>

\* unsubscribe(tickers)
Finnhub_unsubscribe(T) ==
    /\ fh' = [fh EXCEPT !.subscribed = fh.subscribed \ T, !.h_ctx = "loop"]
    /\ UNCHANGED <<fg, rc, al, pl, qs, wm, ru, pp, rs, qm, dc, ca, pt>>

\* _on_open (ws thread)
Finnhub_on_open(i) ==
    /\ fh.conns[i] = "connecting"
    /\ fh' = [fh EXCEPT !.conns[i] = "open",
                        !.connected = TRUE,
                        !.reconnect_delay = Finnhub_RECONNECT_BASE_DELAY,
                        !.h_ctx = "ws"]
    /\ UNCHANGED <<fg, rc, al, pl, qs, wm, ru, pp, rs, qm, dc, ca, pt>>

\* _on_message (ws thread): _last_message_at and _message_count are
\* written first; a trade message is the validated data message; nothing in
\* the handler touches the reconnect delay
Finnhub_on_message(i, kind) ==
    /\ fh.conns[i] = "open"
    /\ fh' = IF kind = "trade"
             THEN [fh EXCEPT !.h_n = 0, !.h_used = 0, !.h_rl = FALSE, !.h_ctx = "ws"]
             ELSE Finnhub_written(fh, "ws")
    /\ UNCHANGED <<fg, rc, al, pl, qs, wm, ru, pp, rs, qm, dc, ca, pt>>

\* _on_error (ws thread).  kind "rate_limit": the handshake was refused with
\* 429 / "API limit reached", run_forever is over and on_close follows;
\* "other": any other error text, which the handler only logs
Finnhub_on_error(i, kind) ==
    /\ kind = "rate_limit" => fh.conns[i] = "connecting"
    /\ kind = "other" => fh.conns[i] \in {"connecting", "open"}
    /\ fh' = IF kind = "rate_limit"
             THEN [fh EXCEPT !.conns[i] = "closing",
                             !.reconnect_delay = Max(fh.reconnect_delay, Finnhub_RATE_LIMIT_BACKOFF),
                             !.h_rl = TRUE,
                             !.h_ctx = "ws"]
             ELSE fh
    /\ UNCHANGED <<fg, rc, al, pl, qs, wm, ru, pp, rs, qm, dc, ca, pt>>

\* _on_close (ws thread): run_forever ended, by failure, by the provider or by close()
Finnhub_on_close(i) ==
    /\ fh.conns[i] /= "free"
    /\ fh.should_run => fh.timers < MaxTimers
    /\ LET c == [fh EXCEPT !.conns[i] = "free", !.connected = FALSE, !.h_ctx = "ws"]
       IN  fh' = IF fh.should_run THEN Finnhub_schedule_reconnect(c) ELSE c
    /\ UNCHANGED <<fg, rc, al, pl, qs, wm, ru, pp, rs, qm, dc, ca, pt>>

\* _do_reconnect (Timer thread)
Finnhub_do_reconnect ==
    /\ fh.timers > 0
    /\ fh.should_run => HasFree(fh.conns)
    /\ LET c == [fh EXCEPT !.timers = fh.timers - 1]
       IN  fh' = IF fh.should_run THEN Finnhub_written(Finnhub_start_ws_thread(c), "timer") ELSE c
    /\ UNCHANGED <<fg, rc, al, pl, qs, wm, ru, pp, rs, qm, dc, ca, pt>>

FinnhubNext ==
    \/ Finnhub_connect
    \/ Finnhub_connect_noop
    \/ Finnhub_disconnect
    \/ \E T \in (SUBSET Symbols) \ {{}} : Finnhub_subscribe(T)
    \/ \E T \in (SUBSET Symbols) \ {{}} : Finnhub_unsubscribe(T)
    \/ \E i \in Slots : Finnhub_on_open(i)
    \/ \E i \in Slots, kind \in {"trade", "ping", "other"} : Finnhub_on_message(i, kind)
    \/ \E i \in Slots, kind \in {"rate_limit", "other"} : Finnhub_on_error(i, kind)
    \/ \E i \in Slots : Finnhub_on_close(i)
    \/ Finnhub_do_reconnect

\* ==================================================================
\* FugleWSClient
\* ==================================================================
Fugle_RECONNECT_BASE_DELAY == 1
\* config.FUGLE_RECONNECT_MAX_DELAY, handed to the constructor by QuoteManager
Fugle_RECONNECT_MAX_DELAY == 60
MAX_CONN_BACKOFF == 120

\* __init__: self._reconnect_max = max(reconnect_max_delay, MAX_CONN_BACKOFF)
Fugle_reconnect_max == Max(Fugle_RECONNECT_MAX_DELAY, MAX_CONN_BACKOFF)

FugleInit ==
    [ stock |-> 0,                   \* self._stock: 0 is None, else the slot of the SDK client
      conns |-> NoConns,             \* SDK clients and their event threads
      connected |-> FALSE,
      should_run |-> FALSE,
      subscribed |-> {},
      reconnect_delay |-> Fugle_RECONNECT_BASE_DELAY,
      reconnect_timer |-> "none",    \* "pending": a started Timer that has not fired
      reconnecting |-> FALSE,
      dr |-> "idle",                 \* position of the Timer thread inside _do_reconnect
      oc |-> "idle",                 \* position of the SDK thread inside _on_connect
      pending |-> {},                \* _on_connect's local list `pending`
      h_unsub |-> {},                \* removed by unsubscribe(), no subscribe() of them since
      h_n |-> 0,
      h_used |-> 0,
      h_rl |-> FALSE ]

\* what self._stock.disconnect() does to the connection self._stock stands for
Fugle_stock_disconnect(c) ==
    [i \in Slots |-> IF i = c.stock /\ c.conns[i] \in {"connecting", "open"}
                     THEN "closing" ELSE c.conns[i]]

\* _schedule_reconnect (under self._reconnect_lock)
Fugle_schedule_reconnect(c) ==
    IF c.reconnecting THEN c
    ELSE [c EXCEPT !.reconnecting = TRUE,
                   !.reconnect_timer = "pending",
                   !.reconnect_delay = Min(c.reconnect_delay * 2, Fugle_reconnect_max),
                   !.h_used = c.reconnect_delay,
                   !.h_n = Min(c.h_n + 1, MaxN)]

\* _init_client: a new SDK client replaces self._stock; outcome is what
\* self._stock.connect() does: "ok", "raise" or "raise_max_conn"
Fugle_init_client(c, outcome) ==
    LET i == FreeSlot(c.conns)
        c1 == [c EXCEPT !.stock = i,
                        !.conns[i] = IF outcome = "ok" THEN "connecting" ELSE "free"]
        c2 == IF outcome = "raise_max_conn"
              THEN [c1 EXCEPT !.reconnect_delay = Max(c1.reconnect_delay, MAX_CONN_BACKOFF),
                              !.h_rl = TRUE]
              ELSE c1
    IN  IF outcome = "ok" THEN c1
        ELSE IF c2.should_run /\ ~c2.reconnecting THEN Fugle_schedule_reconnect(c2)
        ELSE c2

ConnectOutcomes == {"ok", "raise", "raise_max_conn"}

\* connect()
Fugle_connect(outcome) ==
    /\ ~fg.connected
    /\ HasFree(fg.conns)
    /\ fg' = Fugle_init_client([fg EXCEPT !.should_run = TRUE], outcome)
    /\ UNCHANGED <<fh, rc, al, pl, qs, wm, ru, pp, rs, qm, dc, ca, pt>>

\* connect() while connected: early return
Fugle_connect_noop ==
    /\ fg.connected
    /\ UNCHANGED vars

\* disconnect(): _cancel_reconnect() drops a pending Timer; _reconnecting is left as it is
Fugle_disconnected(c) ==
    [c EXCEPT !.should_run = FALSE,
              !.reconnect_timer = "none",
              !.conns = Fugle_stock_disconnect(c),
              !.connected = FALSE,
              !.subscribed = {}]

Fugle_disconnect ==
    /\ fg' = Fugle_disconnected(fg)
    /\ UNCHANGED <<fh, rc, al, pl, qs, wm, ru, pp, rs, qm, dc, ca, pt>>

\* subscribe(tickers); ok: the tickers whose self._stock.subscribe() does not raise
Fugle_subscribe_to(c, T, ok) ==
    IF c.stock = 0 \/ ~c.connected
    THEN [c EXCEPT !.subscribed = c.subscribed \cup T]
    ELSE [c EXCEPT !.subscribed = c.subscribed \cup (T \cap ok)]

Fugle_subscribe(T, ok) ==
    /\ fg' = Fugle_subscribe_to(fg, T, ok)
    /\ UNCHANGED <<fh, rc, al, pl, qs, wm, ru, pp, rs, qm, dc, ca, pt>>

\* unsubscribe(tickers); ok: the tickers whose self._stock.unsubscribe() does not raise
Fugle_unsubscribed(c, T, ok) ==
    IF c.stock = 0 \/ ~c.connected
    THEN [c EXCEPT !.subscribed = c.subscribed \ T]
    ELSE [c EXCEPT !.subscribed = c.subscribed \ (T \cap ok)]

Fugle_unsubscribe(T, ok) ==
    /\ fg' = Fugle_unsubscribed(fg, T, ok)
    /\ UNCHANGED <<fh, rc, al, pl, qs, wm, ru, pp, rs, qm, dc, ca, pt>>

\* _on_connect (SDK thread): replays the queued tickers through subscribe()
Fugle_on_connect(i, ok) ==
    /\ fg.conns[i] = "connecting"
    /\ LET pending == fg.subscribed
           c == [fg EXCEPT !.conns[i] = "open", !.connected = TRUE, !.subscribed = {}]
       IN  fg' = IF pending /= {} THEN Fugle_subscribe_to(c, pending, ok) ELSE c
    /\ UNCHANGED <<fh, rc, al, pl, qs, wm, ru, pp, rs, qm, dc, ca, pt>>

\* _on_connect when the event loop runs between its statements: up to
\* self._subscribed.clear()
Fugle_on_connect_clear(i) ==
    /\ fg.conns[i] = "connecting"
    /\ fg.oc = "idle"
    /\ fg.subscribed /= {}
    /\ fg' = [fg EXCEPT !.conns[i] = "open", !.connected = TRUE,
                        !.pending = fg.subscribed, !.subscribed = {}, !.oc = "replay"]
    /\ UNCHANGED <<fh, rc, al, pl, qs, wm, ru, pp, rs, qm, dc, ca, pt>>

\* _on_connect: self.subscribe(pending)
Fugle_on_connect_replay(ok) ==
    /\ fg.oc = "replay"
    /\ fg' = [Fugle_subscribe_to(fg, fg.pending, ok) EXCEPT !.pending = {}, !.oc = "idle"]
    /\ UNCHANGED <<fh, rc, al, pl, qs, wm, ru, pp, rs, qm, dc, ca, pt>>

\* _on_message (SDK thread).  kind: "data" a trade message, "event" any other
\* JSON object (heartbeat, subscribed, pong, ...), "non_json" is dropped first
Fugle_on_message(i, kind) ==
    /\ fg.conns[i] = "open"
    /\ LET c == IF kind = "data"
                THEN [fg EXCEPT !.h_n = 0, !.h_used = 0, !.h_rl = FALSE]
                ELSE fg
       IN  fg' = IF kind /= "non_json" /\ c.reconnect_delay > Fugle_RECONNECT_BASE_DELAY
                 THEN [c EXCEPT !.reconnect_delay = Fugle_RECONNECT_BASE_DELAY]
                 ELSE c
    /\ UNCHANGED <<fh, rc, al, pl, qs, wm, ru, pp, rs, qm, dc, ca, pt>>

\* _on_disconnect (SDK thread)
Fugle_on_disconnect(i) ==
    /\ fg.conns[i] /= "free"
    /\ LET c == [fg EXCEPT !.conns[i] = "free", !.connected = FALSE]
       IN  fg' = IF c.should_run /\ ~c.reconnecting THEN Fugle_schedule_reconnect(c) ELSE c
    /\ UNCHANGED <<fh, rc, al, pl, qs, wm, ru, pp, rs, qm, dc, ca, pt>>

\* _on_error (SDK thread)
Fugle_on_error(i, kind) ==
    /\ fg.conns[i] \in {"connecting", "open"}
    /\ fg' = IF kind = "max_conn"
             THEN [fg EXCEPT !.reconnect_delay = Max(fg.reconnect_delay, MAX_CONN_BACKOFF),
                             !.h_rl = TRUE]
             ELSE fg
    /\ UNCHANGED <<fh, rc, al, pl, qs, wm, ru, pp, rs, qm, dc, ca, pt>>

\* _do_reconnect (Timer thread), up to the call of _init_client
Fugle_do_reconnect_start ==
    /\ fg.reconnect_timer = "pending"
    /\ fg.dr = "idle"
    /\ fg' = IF ~fg.should_run
             THEN [fg EXCEPT !.reconnect_timer = "none", !.reconnecting = FALSE]
             ELSE [fg EXCEPT !.reconnect_timer = "none",
                             !.conns = Fugle_stock_disconnect(fg),
                             !.stock = 0,
                             !.connected = FALSE,
                             !.dr = "init"]
    /\ UNCHANGED <<fh, rc, al, pl, qs, wm, ru, pp, rs, qm, dc, ca, pt>>

\* _do_reconnect: self._init_client()
Fugle_do_reconnect_init(outcome) ==
    /\ fg.dr = "init"
    /\ HasFree(fg.conns)
    /\ fg' = Fugle_init_client([fg EXCEPT !.dr = "finally"], outcome)
    /\ UNCHANGED <<fh, rc, al, pl, qs, wm, ru, pp, rs, qm, dc, ca, pt>>

\* _do_reconnect: finally: self._reconnecting = False
Fugle_do_reconnect_finally ==
    /\ fg.dr = "finally"
    /\ fg' = [fg EXCEPT !.reconnecting = FALSE, !.dr = "idle"]
    /\ UNCHANGED <<fh, rc, al, pl, qs, wm, ru, pp, rs, qm, dc, ca, pt>>

\* subscribe() and unsubscribe() called from the event loop, with the calls
\* remembered in h_unsub
Replay_subscribe(T, ok) ==
    /\ fg' = [Fugle_subscribe_to(fg, T, ok) EXCEPT !.h_unsub = fg.h_unsub \ T]
    /\ UNCHANGED <<fh, rc, al, pl, qs, wm, ru, pp, rs, qm, dc, ca, pt>>

Replay_unsubscribe(T, ok) ==
    /\ LET c == Fugle_unsubscribed(fg, T, ok)
       IN  fg' = [c EXCEPT !.h_unsub = (fg.h_unsub \cup T) \ c.subscribed]
    /\ UNCHANGED <<fh, rc, al, pl, qs, wm, ru, pp, rs, qm, dc, ca, pt>>

\* the Fugle client with the SDK thread's _on_connect and the event loop's
\* subscribe()/unsubscribe() interleaved statement by statement
ReplayNext ==
    \/ \E o \in ConnectOutcomes : Fugle_connect(o)
    \/ Fugle_disconnect
    \/ \E T \in (SUBSET Symbols) \ {{}} : \E ok \in SUBSET T : Replay_subscribe(T, ok)
    \/ \E T \in (SUBSET Symbols) \ {{}} : \E ok \in SUBSET T : Replay_unsubscribe(T, ok)
    \/ \E i \in Slots : Fugle_on_connect_clear(i)
    \/ \E ok \in SUBSET Symbols : Fugle_on_connect_replay(ok)
    \/ \E i \in Slots : Fugle_on_disconnect(i)

FugleNext ==
    \/ \E o \in ConnectOutcomes : Fugle_connect(o)
    \/ Fugle_connect_noop
    \/ Fugle_disconnect
    \/ \E T \in (SUBSET Symbols) \ {{}} : \E ok \in SUBSET T : Fugle_subscribe(T, ok)
    \/ \E T \in (SUBSET Symbols) \ {{}} : \E ok \in SUBSET T : Fugle_unsubscribe(T, ok)
    \/ \E i \in Slots : \E ok \in SUBSET fg.subscribed : Fugle_on_connect(i, ok)
    \/ \E i \in Slots, kind \in {"data", "event", "non_json"} : Fugle_on_message(i, kind)
    \/ \E i \in Slots : Fugle_on_disconnect(i)
    \/ \E i \in Slots, kind \in {"max_conn", "other"} : Fugle_on_error(i, kind)
    \/ Fugle_do_reconnect_start
    \/ \E o \in ConnectOutcomes : Fugle_do_reconnect_init(o)
    \/ Fugle_do_reconnect_finally

\* ==================================================================
\* DynamicSubscription (the subscription reconciler)
\* ==================================================================
\* rows of portfolio_holdings and latest rows of price_targets in the model
MaxRows == 2
MaxTargets == 1

Tickers == {"A", "B", "C"}
\* a stored row may carry an empty ticker; _scan skips it
RowTickers == Tickers \cup {""}
Regions == {"TPE", "US"}
HoldingRows == [ticker : RowTickers, region : Regions]

ReconInit ==
    [ holdings   |-> {},       \* table portfolio_holdings (ticker, region)
      targets    |-> {},       \* table price_targets, is_latest rows (ticker)
      running    |-> FALSE,
      current_tw |-> {},
      current_us |-> {},
      calls      |-> <<>>,     \* callback invocations of the last scan, in order
      h_scanned  |-> FALSE,
      h_P        |-> {},       \* _current_tw when the last scan began
      h_N        |-> {} ]      \* tw_tickers computed by the last scan

\* tickers read from portfolio_holdings for one region; nothing if the read raised
Recon_holdings_of(c, region, readOK) ==
    IF readOK
    THEN {r.ticker : r \in {x \in c.holdings : x.ticker /= "" /\ x.region = region}}
    ELSE {}

\* tickers read from price_targets (always TPE); nothing if the read raised
Recon_targets_of(c, readOK) ==
    IF readOK THEN {t \in c.targets : t /= ""} ELSE {}

\* a reconciler that re-sends the whole computed set instead of the delta
Recon_tw_calls_full(current, tw_tickers) ==
    LET removed_tw == current \ tw_tickers
    IN  (IF tw_tickers /= {} THEN <<[op |-> "subscribe", tickers |-> tw_tickers]>> ELSE <<>>)
        \o (IF removed_tw /= {} THEN <<[op |-> "unsubscribe", tickers |-> removed_tw]>> ELSE <<>>)

\* the callbacks _scan invokes for the Taiwan region, in order
Recon_tw_calls(current, tw_tickers) ==
    LET new_tw     == tw_tickers \ current
        removed_tw == current \ tw_tickers
    IN  (IF new_tw /= {} THEN <<[op |-> "subscribe", tickers |-> new_tw]>> ELSE <<>>)
        \o (IF removed_tw /= {} THEN <<[op |-> "unsubscribe", tickers |-> removed_tw]>> ELSE <<>>)

\* a scan that gives up, leaving the known sets, when one of its reads fails
Recon_scan_all_or_nothing(c, holdingsOK, targetsOK) ==
    IF holdingsOK /\ targetsOK
    THEN LET tw_tickers == Recon_holdings_of(c, "TPE", TRUE) \cup Recon_targets_of(c, TRUE)
         IN  [c EXCEPT !.calls      = Recon_tw_calls(c.current_tw, tw_tickers),
                       !.current_tw = tw_tickers,
                       !.current_us = Recon_holdings_of(c, "US", TRUE),
                       !.h_scanned  = TRUE,
                       !.h_P        = c.current_tw,
                       !.h_N        = tw_tickers]
    ELSE [c EXCEPT !.calls = <<>>, !.h_scanned = TRUE, !.h_P = c.current_tw,
                   !.h_N = c.current_tw]

\* one whole _scan()
Recon_scan(c, holdingsOK, targetsOK) ==
    LET tw_tickers == Recon_holdings_of(c, "TPE", holdingsOK) \cup Recon_targets_of(c, targetsOK)
        us_tickers == Recon_holdings_of(c, "US", holdingsOK)
    IN  [c EXCEPT !.calls      = Recon_tw_calls(c.current_tw, tw_tickers),
                  !.current_tw = tw_tickers,
                  !.current_us = us_tickers,
                  !.h_scanned  = TRUE,
                  !.h_P        = c.current_tw,
                  !.h_N        = tw_tickers]

\* start(): mark running and scan once immediately
Recon_start(holdingsOK, targetsOK) ==
    /\ ~rc.running
    /\ rc' = Recon_scan([rc EXCEPT !.running = TRUE], holdingsOK, targetsOK)
    /\ UNCHANGED <<fh, fg, al, pl, qs, wm, ru, pp, rs, qm, dc, ca, pt>>

\* one iteration of _scan_loop after its sleep
Recon_scan_loop(holdingsOK, targetsOK) ==
    /\ rc.running
    /\ rc' = Recon_scan(rc, holdingsOK, targetsOK)
    /\ UNCHANGED <<fh, fg, al, pl, qs, wm, ru, pp, rs, qm, dc, ca, pt>>

Recon_stop ==
    /\ rc.running
    /\ rc' = [rc EXCEPT !.running = FALSE]
    /\ UNCHANGED <<fh, fg, al, pl, qs, wm, ru, pp, rs, qm, dc, ca, pt>>

\* the application adds or removes a holding / a latest advisory target
Recon_db_add_holding(row) ==
    /\ row \notin rc.holdings
    /\ Cardinality(rc.holdings) < MaxRows
    /\ rc' = [rc EXCEPT !.holdings = @ \cup {row}]
    /\ UNCHANGED <<fh, fg, al, pl, qs, wm, ru, pp, rs, qm, dc, ca, pt>>

Recon_db_remove_holding(row) ==
    /\ row \in rc.holdings
    /\ rc' = [rc EXCEPT !.holdings = @ \ {row}]
    /\ UNCHANGED <<fh, fg, al, pl, qs, wm, ru, pp, rs, qm, dc, ca, pt>>

Recon_db_add_target(t) ==
    /\ t \notin rc.targets
    /\ Cardinality(rc.targets) < MaxTargets
    /\ rc' = [rc EXCEPT !.targets = @ \cup {t}]
    /\ UNCHANGED <<fh, fg, al, pl, qs, wm, ru, pp, rs, qm, dc, ca, pt>>

Recon_db_remove_target(t) ==
    /\ t \in rc.targets
    /\ rc' = [rc EXCEPT !.targets = @ \ {t}]
    /\ UNCHANGED <<fh, fg, al, pl, qs, wm, ru, pp, rs, qm, dc, ca, pt>>

ReconNext ==
    \/ \E h \in BOOLEAN, t \in BOOLEAN : Recon_start(h, t)
    \/ \E h \in BOOLEAN, t \in BOOLEAN : Recon_scan_loop(h, t)
    \/ Recon_stop
    \/ \E row \in HoldingRows : Recon_db_add_holding(row)
    \/ \E row \in HoldingRows : Recon_db_remove_holding(row)
    \/ \E t \in RowTickers : Recon_db_add_target(t)
    \/ \E t \in RowTickers : Recon_db_remove_target(t)

\* ==================================================================
\* Alert pipeline (stock_monitor._process_alerts, price_checker)
\* ==================================================================
\* clock in minutes, advanced in steps of TickMinutes up to MaxClock
TickMinutes == 30
MaxClock == 120
\* alerts handed to the notification channels that the model follows
MaxDispatch == 2

\* the cooldown_minutes passed to deduplicate_alerts
COOLDOWN_MINUTES == 60
\* .limit(200) of the price_alerts read
HISTORY_LIMIT == 200

\* prices are in hundredths: 5230 is 52.30
NoPrice == 0
Prices == {5210, 5230, 5400, 5800}
Channels == {"line", "telegram"}

\* price_targets rows (is_latest) and portfolio_holdings rows of the scenario
AlertTargetRows ==
    << [user_id |-> "u1", ticker |-> "X", is_latest |-> TRUE, defense_price |-> 5300,
        min_target_low |-> 5700, min_target_high |-> 5900,
        reasonable_target_low |-> Absent, reasonable_target_high |-> Absent] >>
AlertHoldingRows ==
    << [user_id |-> "u1", ticker |-> "X", shares |-> 10, cost_price |-> 5220,
        strategy_mode |-> "auto", manual_tp |-> 0, manual_sl |-> 0,
        high_watermark_price |-> 0] >>

AlertEvent(user_id, ticker, alert_type, trigger_price, current_price) ==
    [user_id |-> user_id, ticker |-> ticker, alert_type |-> alert_type,
     trigger_price |-> trigger_price, current_price |-> current_price]

AlertKey(a) == <<a.user_id, a.ticker, a.alert_type>>

AlertInit ==
    [ now     |-> 0,
      price   |-> NoPrice,     \* current price of X in the quote store
      history |-> <<>>,        \* table price_alerts, in insertion order
      h_disp  |-> <<>> ]       \* alerts handed to the channels: event, time, channels that succeeded

\* current_prices.get(ticker)
PriceOf(current_prices, ticker) ==
    IF ticker \in DOMAIN current_prices THEN current_prices[ticker] ELSE NoPrice

\* the alerts of one price_targets row, with a strict defense comparison
Alert_advisory_row_strict(current_prices, target) ==
    LET current == PriceOf(current_prices, target.ticker)
    IN  IF ~target.is_latest \/ current = NoPrice THEN <<>>
        ELSE IF target.defense_price /= Absent /\ current < target.defense_price
             THEN <<AlertEvent(target.user_id, target.ticker, "defense_breach",
                               target.defense_price, current)>>
             ELSE <<>>

\* the alerts of one price_targets row
Alert_advisory_row(current_prices, target) ==
    LET current == PriceOf(current_prices, target.ticker)
    IN  IF ~target.is_latest \/ current = NoPrice THEN <<>>
        ELSE (IF target.defense_price /= Absent /\ current <= target.defense_price
              THEN <<AlertEvent(target.user_id, target.ticker, "defense_breach",
                                target.defense_price, current)>>
              ELSE <<>>)
             \o (IF /\ target.min_target_low /= Absent /\ target.min_target_high /= Absent
                    /\ target.min_target_low <= current /\ current <= target.min_target_high
                 THEN <<AlertEvent(target.user_id, target.ticker, "min_target_reached",
                                   target.min_target_low, current)>>
                 ELSE <<>>)
             \o (IF /\ target.reasonable_target_low /= Absent
                    /\ target.reasonable_target_high /= Absent
                    /\ target.reasonable_target_low <= current
                    /\ current <= target.reasonable_target_high
                 THEN <<AlertEvent(target.user_id, target.ticker, "reasonable_target_reached",
                                   target.reasonable_target_low, current)>>
                 ELSE <<>>)

RECURSIVE check_advisory_alerts(_, _)
check_advisory_alerts(current_prices, price_targets) ==
    IF price_targets = <<>> THEN <<>>
    ELSE Alert_advisory_row(current_prices, Head(price_targets))
         \o check_advisory_alerts(current_prices, Tail(price_targets))

\* (tp, sl) of a position that ignores the high watermark
calculate_tp_sl_no_trailing(holding) ==
    [tp |-> (holding.cost_price * 11) \div 10, sl |-> holding.cost_price]

\* (tp, sl) of a position whose automatic take-profit only trails the watermark
calculate_tp_sl_trailing_only(holding) ==
    LET avg_cost == holding.cost_price
        hwm == IF holding.high_watermark_price /= 0
               THEN holding.high_watermark_price ELSE avg_cost
    IN  IF holding.strategy_mode = "manual"
        THEN [tp |-> IF holding.manual_tp /= 0 THEN holding.manual_tp ELSE (avg_cost * 11) \div 10,
              sl |-> IF holding.manual_sl /= 0 THEN holding.manual_sl ELSE avg_cost]
        ELSE [tp |-> (hwm * 9) \div 10, sl |-> avg_cost]

\* (tp, sl) of an aggregated holding; 0 stands for an unset column
calculate_tp_sl(holding) ==
    LET avg_cost == holding.cost_price
    IN  IF holding.strategy_mode = "manual"
        THEN [tp |-> IF holding.manual_tp /= 0 THEN holding.manual_tp ELSE (avg_cost * 11) \div 10,
              sl |-> IF holding.manual_sl /= 0 THEN holding.manual_sl ELSE avg_cost]
        ELSE LET hwm == IF holding.high_watermark_price /= 0
                        THEN holding.high_watermark_price ELSE avg_cost
             IN  [tp |-> Max((avg_cost * 11) \div 10, (hwm * 9) \div 10), sl |-> avg_cost]

\* the (user_id, ticker) keys of the holdings in order of first appearance
RECURSIVE Portfolio_keys(_)
Portfolio_keys(holdings) ==
    IF holdings = <<>> THEN <<>>
    ELSE LET k == <<Head(holdings).user_id, Head(holdings).ticker>>
             Other(x) == x /= k
         IN  <<k>> \o SelectSeq(Portfolio_keys(Tail(holdings)), Other)

\* the lots of one key aggregated: shares and cost are summed, the mode and
\* the manual values are those of the first lot, the watermark is the highest
RECURSIVE Portfolio_aggregate(_)
Portfolio_aggregate(lots) ==
    LET h      == lots[Len(lots)]
        before == SubSeq(lots, 1, Len(lots) - 1)
        base   == IF before = <<>>
                  THEN [user_id |-> h.user_id, ticker |-> h.ticker,
                        total_shares |-> 0, total_cost |-> 0, cost_price |-> 0,
                        strategy_mode |-> h.strategy_mode,
                        manual_tp |-> h.manual_tp, manual_sl |-> h.manual_sl,
                        high_watermark_price |-> h.high_watermark_price]
                  ELSE Portfolio_aggregate(before)
    IN  [base EXCEPT !.total_shares = @ + h.shares,
                     !.total_cost   = @ + h.shares * h.cost_price,
                     !.high_watermark_price =
                         IF h.high_watermark_price /= 0 THEN Max(h.high_watermark_price, @) ELSE @]

\* the alerts of one aggregated (user, ticker) position
Alert_portfolio_row(current_prices, agg) ==
    LET current == PriceOf(current_prices, agg.ticker)
    IN  IF current = NoPrice \/ agg.total_shares <= 0 THEN <<>>
        ELSE LET t == calculate_tp_sl([agg EXCEPT !.cost_price = agg.total_cost \div agg.total_shares])
             IN  (IF current >= t.tp
                  THEN <<AlertEvent(agg.user_id, agg.ticker, "tp_triggered", t.tp, current)>>
                  ELSE <<>>)
                 \o (IF current <= t.sl /\ t.sl > 0
                     THEN <<AlertEvent(agg.user_id, agg.ticker, "sl_triggered", t.sl, current)>>
                     ELSE <<>>)

RECURSIVE Portfolio_alerts_of(_, _, _)
Portfolio_alerts_of(current_prices, holdings, keys) ==
    IF keys = <<>> THEN <<>>
    ELSE LET k == Head(keys)
             OfKey(h) == <<h.user_id, h.ticker>> = k
         IN  Alert_portfolio_row(current_prices, Portfolio_aggregate(SelectSeq(holdings, OfKey)))
             \o Portfolio_alerts_of(current_prices, holdings, Tail(keys))

check_portfolio_alerts(current_prices, holdings) ==
    Portfolio_alerts_of(current_prices, holdings, Portfolio_keys(holdings))

\* the rows the price_alerts query returns: the newest HISTORY_LIMIT
Alert_recent_read(history) ==
    IF Len(history) <= HISTORY_LIMIT THEN history
    ELSE SubSeq(history, Len(history) - HISTORY_LIMIT + 1, Len(history))

deduplicate_alerts(new_alerts, recent_alerts, now) ==
    LET cutoff == now - COOLDOWN_MINUTES
        recent_set == {<<recent_alerts[k].user_id, recent_alerts[k].ticker, recent_alerts[k].alert_type>> :
                          k \in {j \in 1..Len(recent_alerts) : recent_alerts[j].triggered_at > cutoff}}
        Fresh(a) == AlertKey(a) \notin recent_set
    IN  SelectSeq(new_alerts, Fresh)

\* rows inserted into price_alerts: one per surviving alert whose insert succeeded
RECURSIVE Alert_records(_, _, _, _)
Alert_records(alerts, via, ins, now) ==
    IF alerts = <<>> THEN <<>>
    ELSE LET a == Head(alerts)
             rest == Alert_records(Tail(alerts), Tail(via), Tail(ins), now)
         IN  IF Head(ins)
             THEN <<[user_id |-> a.user_id, ticker |-> a.ticker, alert_type |-> a.alert_type,
                     trigger_price |-> a.trigger_price, current_price |-> a.current_price,
                     notified_via |-> Head(via), triggered_at |-> now]>> \o rest
             ELSE rest

\* the current_prices dict the jobs pass to _process_alerts
Alert_current_prices ==
    IF al.price = NoPrice THEN <<>> ELSE [t \in {"X"} |-> al.price]

\* one whole _process_alerts(current_prices); the *OK flags say whether the
\* table read succeeded, via[k] are the channels that reported success for
\* the k-th surviving alert, ins[k] whether its insert succeeded
Alert_process(holdingsOK, targetsOK, historyOK) ==
    LET portfolio_alerts == IF holdingsOK
                            THEN check_portfolio_alerts(Alert_current_prices, AlertHoldingRows) ELSE <<>>
        advisory_alerts  == IF targetsOK
                            THEN check_advisory_alerts(Alert_current_prices, AlertTargetRows) ELSE <<>>
        all_alerts == advisory_alerts \o portfolio_alerts
        survivors  == IF all_alerts = <<>> THEN <<>>
                      ELSE IF historyOK
                           THEN deduplicate_alerts(all_alerts, Alert_recent_read(al.history), al.now)
                           ELSE all_alerts
        n == Len(survivors)
    IN  /\ Len(al.h_disp) < MaxDispatch
        /\ \E via \in [1..n -> SUBSET Channels], ins \in [1..n -> BOOLEAN] :
              al' = [al EXCEPT
                       !.history = @ \o Alert_records(survivors, via, ins, al.now),
                       !.h_disp  = @ \o [k \in 1..n |->
                                           [event |-> survivors[k], at |-> al.now, via |-> via[k]]]]
        /\ UNCHANGED <<fh, fg, rc, pl, qs, wm, ru, pp, rs, qm, dc, ca, pt>>

\* a quote update changes the stored price of X
Alert_set_price(p) ==
    /\ p /= al.price
    /\ al' = [al EXCEPT !.price = p]
    /\ UNCHANGED <<fh, fg, rc, pl, qs, wm, ru, pp, rs, qm, dc, ca, pt>>

Alert_tick ==
    /\ al.now + TickMinutes <= MaxClock
    /\ al' = [al EXCEPT !.now = @ + TickMinutes]
    /\ UNCHANGED <<fh, fg, rc, pl, qs, wm, ru, pp, rs, qm, dc, ca, pt>>

AlertNext ==
    \/ \E h \in BOOLEAN, t \in BOOLEAN, r \in BOOLEAN : Alert_process(h, t, r)
    \/ \E p \in Prices : Alert_set_price(p)
    \/ Alert_tick

\* ==================================================================
\* PolygonFallback (the fallback poller); its companion is the Finnhub client
\* ==================================================================
\* clock in seconds, advanced in steps of TickSeconds up to MaxTime
TickSeconds == 30
MaxTime == 300

ACTIVATION_THRESHOLD == 120
POLL_INTERVAL == 60
\* disconnected_since = None
NoTime == -1

USTickers == {"AAPL"}

PollerInit ==
    [ now      |-> 0,
      running  |-> FALSE,
      active   |-> FALSE,
      tickers  |-> {},
      pc       |-> "none",     \* _watch_loop task: "none", "sleep" (until wake), "polling"
      wake     |-> 0,
      disconnected_since |-> NoTime,
      h_t0     |-> 0,          \* when the companion was last seen to go (or start) disconnected
      h_started |-> NoTime,    \* when start() created the running task
      h_poll_while_connected |-> FALSE ]

\* the iteration of _watch_loop is due: the task is at the top of the loop
Poller_due == pl.pc = "sleep" /\ pl.now >= pl.wake

\* start(tickers): the task begins its first iteration at once
Poller_start(tickers) ==
    /\ pl.pc = "none"
    /\ pl' = [pl EXCEPT !.running = TRUE, !.tickers = tickers, !.pc = "sleep",
                        !.wake = pl.now, !.disconnected_since = NoTime,
                        !.h_started = pl.now]
    /\ UNCHANGED <<fh, fg, rc, al, qs, wm, ru, pp, rs, qm, dc, ca, pt>>

\* stop(): the task is cancelled; _active is left as it is
Poller_stop ==
    /\ pl.pc /= "none"
    /\ pl' = [pl EXCEPT !.running = FALSE, !.pc = "none", !.h_started = NoTime]
    /\ UNCHANGED <<fh, fg, rc, al, qs, wm, ru, pp, rs, qm, dc, ca, pt>>

Poller_update_tickers(tickers) ==
    /\ tickers /= pl.tickers
    /\ pl' = [pl EXCEPT !.tickers = tickers]
    /\ UNCHANGED <<fh, fg, rc, al, qs, wm, ru, pp, rs, qm, dc, ca, pt>>

\* one iteration of _watch_loop, up to its sleep or to the start of a poll
Poller_watch_iteration ==
    /\ Poller_due
    /\ pl.running
    /\ pl' = IF fh.connected
             THEN [pl EXCEPT !.active = FALSE, !.disconnected_since = NoTime,
                             !.wake = pl.now + POLL_INTERVAL]
             ELSE LET since   == IF pl.disconnected_since = NoTime
                                 THEN pl.now ELSE pl.disconnected_since
                      elapsed == pl.now - since
                      act     == pl.active \/ elapsed >= ACTIVATION_THRESHOLD
                  IN  IF act /\ pl.tickers /= {}
                      THEN [pl EXCEPT !.disconnected_since = since, !.active = act,
                                      !.pc = "polling"]
                      ELSE [pl EXCEPT !.disconnected_since = since, !.active = act,
                                      !.wake = pl.now + POLL_INTERVAL]
    /\ UNCHANGED <<fh, fg, rc, al, qs, wm, ru, pp, rs, qm, dc, ca, pt>>

\* _poll_prices returns (within its 15 s timeout, before the next clock step);
\* wrote says whether it upserted rows tagged polygon_rest
Poller_poll_done(wrote) ==
    /\ pl.pc = "polling"
    /\ pl' = [pl EXCEPT !.pc = "sleep", !.wake = pl.now + POLL_INTERVAL,
                        !.h_poll_while_connected = @ \/ (wrote /\ fh.connected)]
    /\ UNCHANGED <<fh, fg, rc, al, qs, wm, ru, pp, rs, qm, dc, ca, pt>>

\* the companion's socket opens (_on_open sets _connected)
Poller_companion_up ==
    /\ ~fh.connected
    /\ fh' = [fh EXCEPT !.connected = TRUE, !.should_run = TRUE, !.ws = 1,
                        !.conns = [NoConns EXCEPT ![1] = "open"], !.h_ctx = "ws"]
    /\ UNCHANGED <<fg, rc, al, pl, qs, wm, ru, pp, rs, qm, dc, ca, pt>>

\* the companion's socket closes (_on_close clears _connected)
Poller_companion_down ==
    /\ fh.connected
    /\ fh' = [fh EXCEPT !.connected = FALSE, !.conns = NoConns, !.h_ctx = "ws"]
    /\ pl' = [pl EXCEPT !.h_t0 = pl.now]
    /\ UNCHANGED <<fg, rc, al, qs, wm, ru, pp, rs, qm, dc, ca, pt>>

\* time passes; a due iteration and a running poll come first
Poller_tick ==
    /\ pl.now + TickSeconds <= MaxTime
    /\ ~Poller_due
    /\ pl.pc /= "polling"
    /\ pl' = [pl EXCEPT !.now = @ + TickSeconds]
    /\ UNCHANGED <<fh, fg, rc, al, qs, wm, ru, pp, rs, qm, dc, ca, pt>>

PollerNext ==
    \/ \E T \in SUBSET USTickers : Poller_start(T)
    \/ Poller_stop
    \/ \E T \in SUBSET USTickers : Poller_update_tickers(T)
    \/ Poller_watch_iteration
    \/ \E w \in BOOLEAN : Poller_poll_done(w)
    \/ Poller_companion_up
    \/ Poller_companion_down
    \/ Poller_tick

\* ==================================================================
\* Quote store (table market_data) and the feed handlers that write it
\* ==================================================================
\* values a price field can carry: missing, negative, zero, a real price
PriceVals == {Absent, -1, 0, 100}
\* best bid and best ask of a message that carries a book; their midpoint
\* (BookBid + BookAsk) \div 2 is no trade price
BookBid == 101
BookAsk == 103
Midpoint(bid, ask) == (bid + ask) \div 2

TWTicker == "2330"
USTicker == "AAPL"
StoreTickers == {TWTicker, USTicker}

NoRow == [current_price |-> Absent, realtime_price |-> Absent, update_source |-> "none"]

StoreInit ==
    [ rows    |-> [t \in StoreTickers |-> NoRow],
      us_open |-> FALSE,            \* _is_us_market_open()
      tw_open |-> FALSE,            \* twstock_fetcher.is_market_open()
      h_src   |-> "none",           \* handler that processed the last message
      h_trade |-> {},               \* positive trade prices the last message carried
      h_mid   |-> Absent,           \* bid/ask midpoint of the last message, if it had a book
      h_wrote |-> {},               \* prices the last message made the handler write
      h_type  |-> "none",           \* type of the last Finnhub message
      h_cb    |-> {},               \* prices the last Finnhub message passed to on_price_update
      h_count |-> 0 ]               \* _message_count of the Finnhub client, modulo 2

\* the row one feed upsert leaves for a ticker
Store_upsert(rows, ticker, price, source) ==
    IF ticker \in StoreTickers
    THEN [rows EXCEPT ![ticker] = [current_price |-> price, realtime_price |-> price,
                                   update_source |-> source]]
    ELSE rows

\* Python's "a or b" on optional numbers and strings
OrElse(a, b) == IF a /= Absent /\ a /= 0 THEN a ELSE b
OrElseStr(a, b) == IF a /= "" THEN a ELSE b

\* messages of the Fugle trades channel: data is message["data"], top the
\* message itself
FugleMessages ==
    [ event : {"", "data", "heartbeat"},
      data_symbol : {"", TWTicker}, top_symbol : {"", TWTicker},
      data_price : PriceVals, data_trade_price : PriceVals, top_price : PriceVals,
      data_close : PriceVals,
      book : BOOLEAN ]

Fugle_symbol_of(m) == OrElseStr(m.data_symbol, m.top_symbol)

\* the price extraction of _handle_message with a bid/ask midpoint as the
\* last resort
Fugle_price_of_midpoint(m) ==
    LET p1 == m.data_price
        p2 == IF p1 = Absent THEN m.data_trade_price ELSE p1
        p3 == IF p2 = Absent THEN m.top_price ELSE p2
        p4 == IF p3 = Absent THEN m.data_close ELSE p3
    IN  IF (p4 = Absent \/ p4 <= 0) /\ m.book THEN Midpoint(BookBid, BookAsk) ELSE p4

\* the price extraction of _handle_message: data.price, data.trade.price,
\* the top-level price, then closePrice / lastPrice / close
Fugle_price_of(m) ==
    LET p1 == m.data_price
        p2 == IF p1 = Absent THEN m.data_trade_price ELSE p1
        p3 == IF p2 = Absent THEN m.top_price ELSE p2
        p4 == IF p3 = Absent THEN m.data_close ELSE p3
    IN  p4

Fugle_trade_prices(m) ==
    {v \in {m.data_price, m.data_trade_price, m.top_price, m.data_close} : v /= Absent /\ v > 0}

\* FugleWSClient._handle_message(message)
Store_fugle_message(m) ==
    LET symbol == Fugle_symbol_of(m)
        price  == Fugle_price_of(m)
        skip   == \/ (m.event /= "" /\ m.event /= "data")
                  \/ symbol = ""
                  \/ price = Absent \/ price <= 0
    IN  /\ qs' = [qs EXCEPT
                    !.rows    = IF skip THEN @ ELSE Store_upsert(@, symbol, price, "fugle_ws"),
                    !.h_src   = "fugle_ws",
                    !.h_trade = Fugle_trade_prices(m),
                    !.h_mid   = IF m.book THEN Midpoint(BookBid, BookAsk) ELSE Absent,
                    !.h_wrote = IF skip THEN {} ELSE {price}]
        /\ UNCHANGED <<fh, fg, rc, al, pl, wm, ru, pp, rs, qm, dc, ca, pt>>

\* trades of one Finnhub message
MaxTrades == 2
FinnhubTrades == [s : {"", USTicker}, p : PriceVals]
FinnhubTradeLists == UNION {[1..n -> FinnhubTrades] : n \in 0..MaxTrades}

\* latest valid price per symbol of a trade list, Absent if there is none
RECURSIVE Finnhub_latest(_, _)
Finnhub_latest(trades, symbol) ==
    IF trades = <<>> THEN Absent
    ELSE LET t == trades[Len(trades)]
         IN  IF t.s = symbol /\ t.s /= "" /\ t.p /= Absent /\ t.p /= 0 /\ t.p > 0
             THEN t.p
             ELSE Finnhub_latest(SubSeq(trades, 1, Len(trades) - 1), symbol)

\* _on_message returns before the trades are read: not a trade message, the
\* US session is closed, or the message carries no trades
Finnhub_dropped_no_hours_gate(type, open, trades) ==
    type /= "trade" \/ trades = <<>>

Finnhub_dropped(type, open, trades) ==
    type /= "trade" \/ ~open \/ trades = <<>>

\* FinnhubWSClient._on_message: the statistics, then the part that writes
\* the store and calls on_price_update
Store_finnhub_message(type, trades) ==
    LET dropped == Finnhub_dropped(type, qs.us_open, trades)
        price   == Finnhub_latest(trades, USTicker)
        skip    == dropped \/ price = Absent
    IN  /\ qs' = [qs EXCEPT
                    !.rows    = IF skip THEN @ ELSE Store_upsert(@, USTicker, price, "finnhub_ws"),
                    !.h_src   = "finnhub_ws",
                    !.h_trade = {trades[k].p : k \in {j \in 1..Len(trades) :
                                     trades[j].s = USTicker /\ trades[j].p /= Absent /\ trades[j].p > 0}},
                    !.h_mid   = Absent,
                    !.h_wrote = IF skip THEN {} ELSE {price},
                    !.h_type  = type,
                    !.h_cb    = IF skip THEN {} ELSE {price},
                    !.h_count = (qs.h_count + 1) % 2]
        /\ UNCHANGED <<fh, fg, rc, al, pl, wm, ru, pp, rs, qm, dc, ca, pt>>

\* ShioajiClient._on_tick: tick.close is the last trade price; a tick without
\* it makes float() raise, which the handler swallows
Store_shioaji_tick(close, book) ==
    LET skip == close = Absent \/ close <= 0
    IN  /\ qs' = [qs EXCEPT
                    !.rows    = IF skip THEN @ ELSE Store_upsert(@, TWTicker, close, "shioaji"),
                    !.h_src   = "shioaji",
                    !.h_trade = IF close /= Absent /\ close > 0 THEN {close} ELSE {},
                    !.h_mid   = IF book THEN Midpoint(BookBid, BookAsk) ELSE Absent,
                    !.h_wrote = IF skip THEN {} ELSE {close}]
        /\ UNCHANGED <<fh, fg, rc, al, pl, wm, ru, pp, rs, qm, dc, ca, pt>>

\* PolygonFallback._poll_prices: one item of the snapshot (lastTrade.p)
Store_polygon_item(ticker, p, book) ==
    LET skip == ticker = "" \/ p = Absent \/ p = 0 \/ p <= 0
    IN  /\ qs' = [qs EXCEPT
                    !.rows    = IF skip THEN @ ELSE Store_upsert(@, ticker, p, "polygon_rest"),
                    !.h_src   = "polygon_rest",
                    !.h_trade = IF p /= Absent /\ p > 0 THEN {p} ELSE {},
                    !.h_mid   = IF book THEN Midpoint(BookBid, BookAsk) ELSE Absent,
                    !.h_wrote = IF skip THEN {} ELSE {p}]
        /\ UNCHANGED <<fh, fg, rc, al, pl, wm, ru, pp, rs, qm, dc, ca, pt>>

\* the US regular session opens or closes
Store_us_session(open) ==
    /\ open /= qs.us_open
    /\ qs' = [qs EXCEPT !.us_open = open]
    /\ UNCHANGED <<fh, fg, rc, al, pl, wm, ru, pp, rs, qm, dc, ca, pt>>

\* the Taiwan session opens or closes
Store_tw_session(open) ==
    /\ open /= qs.tw_open
    /\ qs' = [qs EXCEPT !.tw_open = open]
    /\ UNCHANGED <<fh, fg, rc, al, pl, wm, ru, pp, rs, qm, dc, ca, pt>>

\* _update_single_market_data: the close price of a ticker from yfinance
Store_close_update(ticker, price) ==
    /\ qs' = [qs EXCEPT
                !.rows[ticker] = [current_price |-> price, realtime_price |-> Absent,
                                  update_source |-> "yfinance"],
                !.h_src   = "yfinance",
                !.h_trade = {},
                !.h_mid   = Absent,
                !.h_wrote = {}]
    /\ UNCHANGED <<fh, fg, rc, al, pl, wm, ru, pp, rs, qm, dc, ca, pt>>

\* whether the market of a ticker is in its trading hours
Store_market_open(ticker) == IF ticker = USTicker THEN qs.us_open ELSE qs.tw_open

StoreNext ==
    \/ \E m \in FugleMessages : Store_fugle_message(m)
    \/ \E type \in {"ping", "trade", "news"}, trades \in FinnhubTradeLists :
          Store_finnhub_message(type, trades)
    \/ \E close \in PriceVals, book \in BOOLEAN : Store_shioaji_tick(close, book)
    \/ \E ticker \in {"", USTicker}, p \in PriceVals, book \in BOOLEAN :
          Store_polygon_item(ticker, p, book)
    \/ \E open \in BOOLEAN : Store_us_session(open)

\* Fugle trade messages for the Taiwan ticker that carry data.price only
HoursFugleMessages ==
    {m \in FugleMessages :
        /\ m.event = "data" /\ m.data_symbol = TWTicker /\ m.top_symbol = ""
        /\ m.data_trade_price = Absent /\ m.top_price = Absent /\ m.data_close = Absent
        /\ ~m.book}

\* the writers of realtime_price and the sessions of the two markets
HoursNext ==
    \/ \E m \in HoursFugleMessages : Store_fugle_message(m)
    \/ \E p \in PriceVals : Store_finnhub_message("trade", <<[s |-> USTicker, p |-> p]>>)
    \/ \E p \in PriceVals : Store_polygon_item(USTicker, p, FALSE)
    \/ \E ticker \in StoreTickers : Store_close_update(ticker, 100)
    \/ \E open \in BOOLEAN : Store_us_session(open)
    \/ \E open \in BOOLEAN : Store_tw_session(open)

\* ==================================================================
\* High watermark of a holding (portfolio_holdings.high_watermark_price)
\* ==================================================================
\* cost_price of the holding and the prices the jobs can observe for it
WmCost == 100
WmPrices == {90, 120, 130}

\* a job between its read of the holding and its update: "idle" or "read"
WmJobIdle == [pc |-> "idle", price |-> 0, hwm |-> 0]

WatermarkInit ==
    [ hwm     |-> 0,            \* stored high_watermark_price, 0 for null
      mon     |-> WmJobIdle,    \* stock_monitor._update_high_watermarks
      scr     |-> WmJobIdle,    \* scripts/update_market_data.py, a separate process
      h_max   |-> WmCost,       \* highest price observed so far, the cost if never exceeded
      h_eval  |-> FALSE,        \* an evaluation cycle has run
      h_used  |-> 0,            \* watermark the last evaluation computed TP from
      h_tp    |-> 0 ]

\* float(h['high_watermark_price'] or cost)
Wm_effective(hwm) == IF hwm /= 0 THEN hwm ELSE WmCost

\* the job has selected the holding and holds the price it observed
Wm_monitor_read(p) ==
    /\ wm.mon.pc = "idle"
    /\ wm' = [wm EXCEPT !.mon = [pc |-> "read", price |-> p, hwm |-> wm.hwm],
                        !.h_max = Max(@, p)]
    /\ UNCHANGED <<fh, fg, rc, al, pl, qs, ru, pp, rs, qm, dc, ca, pt>>

\* if current > hwm: update high_watermark_price
Wm_monitor_write ==
    /\ wm.mon.pc = "read"
    /\ wm' = [wm EXCEPT !.mon = WmJobIdle,
                        !.hwm = IF wm.mon.price > Wm_effective(wm.mon.hwm)
                                THEN wm.mon.price ELSE @]
    /\ UNCHANGED <<fh, fg, rc, al, pl, qs, ru, pp, rs, qm, dc, ca, pt>>

Wm_script_read(p) ==
    /\ wm.scr.pc = "idle"
    /\ wm' = [wm EXCEPT !.scr = [pc |-> "read", price |-> p, hwm |-> wm.hwm],
                        !.h_max = Max(@, p)]
    /\ UNCHANGED <<fh, fg, rc, al, pl, qs, ru, pp, rs, qm, dc, ca, pt>>

Wm_script_write ==
    /\ wm.scr.pc = "read"
    /\ wm' = [wm EXCEPT !.scr = WmJobIdle,
                        !.hwm = IF wm.scr.price > Wm_effective(wm.scr.hwm)
                                THEN wm.scr.price ELSE @]
    /\ UNCHANGED <<fh, fg, rc, al, pl, qs, ru, pp, rs, qm, dc, ca, pt>>

\* the holding as _process_alerts reads it
Wm_holding_row ==
    [AlertHoldingRows[1] EXCEPT !.cost_price = WmCost, !.high_watermark_price = wm.hwm]

\* _process_alerts(current_prices) with price p for the holding: the position
\* rules are evaluated on the stored row; the row is not written
Wm_process_alerts(p) ==
    /\ wm' = [wm EXCEPT !.h_max  = Max(@, p),
                        !.h_eval = TRUE,
                        !.h_used = Wm_effective(Wm_holding_row.high_watermark_price),
                        !.h_tp   = calculate_tp_sl(Wm_holding_row).tp]
    /\ UNCHANGED <<fh, fg, rc, al, pl, qs, ru, pp, rs, qm, dc, ca, pt>>

WatermarkNext ==
    \/ \E p \in WmPrices : Wm_monitor_read(p)
    \/ Wm_monitor_write
    \/ \E p \in WmPrices : Wm_script_read(p)
    \/ Wm_script_write
    \/ \E p \in WmPrices : Wm_process_alerts(p)

\* ==================================================================
\* The rule functions of price_checker applied to arbitrary arguments
\* ==================================================================
\* lots of portfolio_holdings passed to one call
MaxLots == 2

\* price of X in current_prices (NoPrice: X is not in the dict)
RulePrices == {NoPrice, 100, 109, 110, 150, 200, 220, 250, 330, 359, 360, 400}

RuleTargets ==
    [ user_id : {"u1"}, ticker : {"X"}, is_latest : BOOLEAN,
      defense_price : {Absent, 150},
      min_target_low : {Absent, 200}, min_target_high : {Absent, 250},
      reasonable_target_low : {Absent, 220}, reasonable_target_high : {Absent, 360} ]

\* strategy_mode with the manual columns: unset, or set to (250, 150)
RuleModes ==
    { [strategy_mode |-> "auto", manual_tp |-> 0, manual_sl |-> 0],
      [strategy_mode |-> "manual", manual_tp |-> 0, manual_sl |-> 0],
      [strategy_mode |-> "manual", manual_tp |-> 250, manual_sl |-> 150] }

\* lots of user u1 in every combination, lots of user u2 in auto mode
RuleLots ==
    { [user_id |-> "u1", ticker |-> "X", shares |-> sh, cost_price |-> c,
       strategy_mode |-> mo.strategy_mode, manual_tp |-> mo.manual_tp,
       manual_sl |-> mo.manual_sl, high_watermark_price |-> w] :
         sh \in {0, 10}, c \in {100, 300}, mo \in RuleModes, w \in {0, 400} }
    \cup
    { [user_id |-> "u2", ticker |-> "X", shares |-> 10, cost_price |-> c,
       strategy_mode |-> "auto", manual_tp |-> 0,
       manual_sl |-> 0, high_watermark_price |-> w] :
         c \in {100, 300}, w \in {0, 400} }

RuleLotLists == UNION {[1..n -> RuleLots] : n \in 1..MaxLots}

RulesIdle ==
    [fn |-> "none", price |-> NoPrice, targets |-> <<>>, holdings |-> <<>>,
     done |-> FALSE, out |-> <<>>]

\* the calls the model follows: the function, its arguments, no result yet
RuleCalls ==
    {[RulesIdle EXCEPT !.fn = "check_advisory_alerts", !.price = p, !.targets = <<t>>] :
        p \in RulePrices, t \in RuleTargets}
    \cup
    {[RulesIdle EXCEPT !.fn = "check_portfolio_alerts", !.price = p, !.holdings = l] :
        p \in RulePrices, l \in RuleLotLists}

Rules_current_prices ==
    IF ru.price = NoPrice THEN <<>> ELSE [t \in {"X"} |-> ru.price]

Rules_check_advisory_alerts ==
    /\ ru.fn = "check_advisory_alerts"
    /\ ~ru.done
    /\ ru' = [ru EXCEPT !.done = TRUE,
                        !.out = check_advisory_alerts(Rules_current_prices, ru.targets)]
    /\ UNCHANGED <<fh, fg, rc, al, pl, qs, wm, pp, rs, qm, dc, ca, pt>>

Rules_check_portfolio_alerts ==
    /\ ru.fn = "check_portfolio_alerts"
    /\ ~ru.done
    /\ ru' = [ru EXCEPT !.done = TRUE,
                        !.out = check_portfolio_alerts(Rules_current_prices, ru.holdings)]
    /\ UNCHANGED <<fh, fg, rc, al, pl, qs, wm, pp, rs, qm, dc, ca, pt>>

RulesNext ==
    \/ Rules_check_advisory_alerts
    \/ Rules_check_portfolio_alerts

\* ==================================================================
\* Passes of the alert pipeline on the event loop (stock_monitor.py, main.py)
\* ==================================================================
\* One alert (the defense breach of X for one user) is followed.  A pass is
\* one execution of _process_alerts; it suspends at each await of a push.
\* dispatches the model follows
MaxPasses == 3

\* alert_check and realtime_tw_fallback are scheduler jobs, manual is the
\* POST /api/prices/refresh endpoint
Triggers == {"alert_check", "twstock", "manual"}

PipeInit ==
    [ started      |-> FALSE,   \* scheduler.start() has run
      fallback_job |-> FALSE,   \* job realtime_tw_fallback is registered
      price        |-> FALSE,   \* market_data holds a price of X that breaches the defense
      recorded     |-> FALSE,   \* price_alerts holds the alert, inside the cooldown
      pc           |-> [t \in Triggers |-> "idle"],   \* "idle", "fetch", "line", "telegram"
      h_disp       |-> 0 ]      \* passes that handed the alert to the channels

\* init_monitor: alert_check is always added, realtime_tw_fallback only when
\* neither Fugle nor Shioaji is enabled
Pipe_init_monitor(fugle_enabled, shioaji_enabled) ==
    /\ ~pp.started
    /\ pp' = [pp EXCEPT !.started = TRUE,
                        !.fallback_job = ~fugle_enabled /\ ~shioaji_enabled]
    /\ UNCHANGED <<fh, fg, rc, al, pl, qs, wm, ru, rs, qm, dc, ca, pt>>

\* _process_alerts up to its first await: the rules, the history read and
\* deduplicate_alerts run without suspending; alert: the rules emit the alert
Pipe_process_alerts(c, self, alert, historyOK) ==
    IF ~alert \/ (historyOK /\ c.recorded)
    THEN [c EXCEPT !.pc[self] = "idle"]
    ELSE [c EXCEPT !.pc[self] = "line", !.h_disp = @ + 1]

\* job alert_check (max_instances=1), during market hours
Pipe_alert_check(historyOK) ==
    /\ pp.started
    /\ pp.pc["alert_check"] = "idle"
    /\ pp.h_disp < MaxPasses
    /\ pp' = Pipe_process_alerts(pp, "alert_check", pp.price, historyOK)
    /\ UNCHANGED <<fh, fg, rc, al, pl, qs, wm, ru, rs, qm, dc, ca, pt>>

\* realtime_tw_monitor up to its first await, called by the job
\* realtime_tw_fallback (max_instances=1) or by manual_price_refresh
Pipe_realtime_tw_monitor(self) ==
    /\ self \in {"twstock", "manual"}
    /\ pp.started
    /\ self = "twstock" => pp.fallback_job
    /\ pp.pc[self] = "idle"
    /\ pp.h_disp < MaxPasses
    /\ pp' = [pp EXCEPT !.pc[self] = "fetch"]
    /\ UNCHANGED <<fh, fg, rc, al, pl, qs, wm, ru, rs, qm, dc, ca, pt>>

\* realtime_tw_monitor after fetch_realtime_prices returned; fetched is
\* "none" (no prices), "breach" or "calm" (a price of X at or above the defense)
Pipe_fetched(self, fetched, historyOK) ==
    /\ pp.pc[self] = "fetch"
    /\ pp' = IF fetched = "none"
             THEN [pp EXCEPT !.pc[self] = "idle"]
             ELSE Pipe_process_alerts([pp EXCEPT !.price = (fetched = "breach")],
                                      self, fetched = "breach", historyOK)
    /\ UNCHANGED <<fh, fg, rc, al, pl, qs, wm, ru, rs, qm, dc, ca, pt>>

\* await _push_alert_to_line returned
Pipe_line_done(self) ==
    /\ pp.pc[self] = "line"
    /\ pp' = [pp EXCEPT !.pc[self] = "telegram"]
    /\ UNCHANGED <<fh, fg, rc, al, pl, qs, wm, ru, rs, qm, dc, ca, pt>>

\* await _push_alert_to_telegram returned, then the insert into price_alerts
Pipe_telegram_done(self, insertOK) ==
    /\ pp.pc[self] = "telegram"
    /\ pp' = [pp EXCEPT !.pc[self] = "idle", !.recorded = @ \/ insertOK]
    /\ UNCHANGED <<fh, fg, rc, al, pl, qs, wm, ru, rs, qm, dc, ca, pt>>

\* a feed writes a price of X to market_data
Pipe_quote(breach) ==
    /\ breach /= pp.price
    /\ pp' = [pp EXCEPT !.price = breach]
    /\ UNCHANGED <<fh, fg, rc, al, pl, qs, wm, ru, rs, qm, dc, ca, pt>>

\* the recorded alert leaves the cooldown window
Pipe_cooldown_over ==
    /\ pp.recorded
    /\ pp' = [pp EXCEPT !.recorded = FALSE]
    /\ UNCHANGED <<fh, fg, rc, al, pl, qs, wm, ru, rs, qm, dc, ca, pt>>

PipeNext ==
    \/ \E f \in BOOLEAN, s \in BOOLEAN : Pipe_init_monitor(f, s)
    \/ \E r \in BOOLEAN : Pipe_alert_check(r)
    \/ \E t \in Triggers : Pipe_realtime_tw_monitor(t)
    \/ \E t \in Triggers, f \in {"none", "breach", "calm"}, r \in BOOLEAN : Pipe_fetched(t, f, r)
    \/ \E t \in Triggers : Pipe_line_done(t)
    \/ \E t \in Triggers, i \in BOOLEAN : Pipe_telegram_done(t, i)
    \/ \E b \in BOOLEAN : Pipe_quote(b)
    \/ Pipe_cooldown_over

\* ==================================================================
\* DynamicSubscription: start(), the _scan_loop task and stop() as coroutines
\* ==================================================================
\* _scan is followed in two steps, the reads of the tables and the
\* reconciliation with its callbacks, and the other coroutines may run
\* between the two (the code has no await inside _scan, so it allows less).
\* One ticker is followed: db says whether a table tracks it.
\* scans the model follows
MaxScans == 3

ReconTaskInit ==
    [ running  |-> FALSE,
      db       |-> FALSE,
      current  |-> FALSE,    \* the ticker is in _current_tw
      start_pc |-> "idle",   \* start(): "idle", "read", "emit" (inside its await self._scan())
      start_tw |-> FALSE,    \* tw_tickers of the scan of start()
      task     |-> "none",   \* self._task: "none", "ready", "sleep", "read", "emit"
      task_tw  |-> FALSE,    \* tw_tickers of the scan of the task
      stop_pc  |-> "idle",   \* stop(): "idle", "await" (inside await self._task)
      h_immediate |-> FALSE, \* the immediate scan of the last start() has completed
      h_scans  |-> 0 ]

\* start() creating the loop task before its immediate scan
ReconTask_start_begin_task_first(c) ==
    [c EXCEPT !.running = TRUE, !.start_pc = "read", !.h_immediate = FALSE,
              !.task = "ready"]

\* start(): self._running = True, then the immediate scan begins
ReconTask_start_begin(c) ==
    [c EXCEPT !.running = TRUE, !.start_pc = "read", !.h_immediate = FALSE]

\* QuoteManager.start() calls start() once, QuoteManager.stop() calls stop()
ReconTask_start ==
    /\ ~rs.running
    /\ rs.start_pc = "idle" /\ rs.stop_pc = "idle"
    /\ rs.h_scans < MaxScans
    /\ rs' = ReconTask_start_begin(rs)
    /\ UNCHANGED <<fh, fg, rc, al, pl, qs, wm, ru, pp, qm, dc, ca, pt>>

\* _scan of start(): the reads of portfolio_holdings and price_targets
ReconTask_start_read ==
    /\ rs.start_pc = "read"
    /\ rs' = [rs EXCEPT !.start_tw = rs.db, !.start_pc = "emit"]
    /\ UNCHANGED <<fh, fg, rc, al, pl, qs, wm, ru, pp, qm, dc, ca, pt>>

\* _scan of start(): callbacks and self._current_tw = tw_tickers; then
\* start() creates the task
ReconTask_start_emit ==
    /\ rs.start_pc = "emit"
    /\ rs' = [rs EXCEPT !.current = rs.start_tw, !.start_pc = "idle",
                        !.h_immediate = TRUE, !.h_scans = @ + 1,
                        !.task = "ready"]
    /\ UNCHANGED <<fh, fg, rc, al, pl, qs, wm, ru, pp, qm, dc, ca, pt>>

\* _scan_loop: while self._running: await asyncio.sleep(...)
ReconTask_loop_sleep ==
    /\ rs.task = "ready"
    /\ rs' = [rs EXCEPT !.task = IF rs.running THEN "sleep" ELSE "none"]
    /\ UNCHANGED <<fh, fg, rc, al, pl, qs, wm, ru, pp, qm, dc, ca, pt>>

\* _scan_loop: the sleep is over; if self._running: await self._scan()
ReconTask_loop_wake ==
    /\ rs.task = "sleep"
    /\ rs.h_scans < MaxScans
    /\ rs' = [rs EXCEPT !.task = IF rs.running THEN "read" ELSE "ready"]
    /\ UNCHANGED <<fh, fg, rc, al, pl, qs, wm, ru, pp, qm, dc, ca, pt>>

ReconTask_loop_read ==
    /\ rs.task = "read"
    /\ rs' = [rs EXCEPT !.task_tw = rs.db, !.task = "emit"]
    /\ UNCHANGED <<fh, fg, rc, al, pl, qs, wm, ru, pp, qm, dc, ca, pt>>

\* the scan of the task ends; a cancel requested meanwhile is delivered at
\* the next await
ReconTask_loop_emit ==
    /\ rs.task = "emit"
    /\ rs' = [rs EXCEPT !.current = rs.task_tw, !.h_scans = @ + 1,
                        !.task = IF rs.stop_pc = "await" THEN "none" ELSE "ready"]
    /\ UNCHANGED <<fh, fg, rc, al, pl, qs, wm, ru, pp, qm, dc, ca, pt>>

\* stop(): self._running = False, self._task.cancel(), await self._task
ReconTask_stop ==
    /\ rs.running
    /\ rs.start_pc = "idle" /\ rs.stop_pc = "idle"
    /\ rs' = [rs EXCEPT !.running = FALSE,
                        !.task = IF @ \in {"ready", "sleep"} THEN "none" ELSE @,
                        !.stop_pc = IF rs.task \in {"read", "emit"} THEN "await" ELSE "idle"]
    /\ UNCHANGED <<fh, fg, rc, al, pl, qs, wm, ru, pp, qm, dc, ca, pt>>

\* await self._task returns once the task has ended
ReconTask_stop_done ==
    /\ rs.stop_pc = "await"
    /\ rs.task = "none"
    /\ rs' = [rs EXCEPT !.stop_pc = "idle"]
    /\ UNCHANGED <<fh, fg, rc, al, pl, qs, wm, ru, pp, qm, dc, ca, pt>>

\* the application starts or stops tracking the ticker
ReconTask_db(tracked) ==
    /\ tracked /= rs.db
    /\ rs' = [rs EXCEPT !.db = tracked]
    /\ UNCHANGED <<fh, fg, rc, al, pl, qs, wm, ru, pp, qm, dc, ca, pt>>

ReconTaskNext ==
    \/ ReconTask_start
    \/ ReconTask_start_read
    \/ ReconTask_start_emit
    \/ ReconTask_loop_sleep
    \/ ReconTask_loop_wake
    \/ ReconTask_loop_read
    \/ ReconTask_loop_emit
    \/ ReconTask_stop
    \/ ReconTask_stop_done
    \/ \E b \in BOOLEAN : ReconTask_db(b)

\* ==================================================================
\* ShioajiClient (market/shioaji_client.py)
\* ==================================================================
ShioajiInit ==
    [ api        |-> FALSE,    \* self._api is set
      connected  |-> FALSE,
      should_run |-> FALSE,
      subscribed |-> {} ]

\* subscribe(tickers); ok: the tickers whose contract is found and whose
\* quote.subscribe() does not raise
Shioaji_subscribe_to(c, T, ok) ==
    IF ~c.api \/ ~c.connected
    THEN [c EXCEPT !.subscribed = c.subscribed \cup T]
    ELSE [c EXCEPT !.subscribed = c.subscribed \cup (T \cap ok)]

\* unsubscribe(tickers); ok: the tickers whose SDK calls do not raise
Shioaji_unsubscribe_from(c, T, ok) ==
    IF ~c.api \/ ~c.connected
    THEN [c EXCEPT !.subscribed = c.subscribed \ T]
    ELSE [c EXCEPT !.subscribed = c.subscribed \ (T \cap ok)]

\* connect(): nothing when connected, else the login thread is started
Shioaji_connect_to(c) ==
    IF c.connected THEN c ELSE [c EXCEPT !.should_run = TRUE]

\* disconnect(): logout errors are swallowed, self._api is kept
Shioaji_disconnected(c) ==
    [c EXCEPT !.should_run = FALSE, !.connected = FALSE, !.subscribed = {}]

\* _do_login (login thread); outcome "import_error", "login_failed" or "ok"
Shioaji_do_login(c, outcome, ok) ==
    IF outcome = "import_error" THEN c
    ELSE IF outcome = "login_failed" THEN [c EXCEPT !.api = TRUE, !.connected = FALSE]
    ELSE LET pending == c.subscribed
             d == [c EXCEPT !.api = TRUE, !.connected = TRUE, !.subscribed = {}]
         IN  IF pending /= {} THEN Shioaji_subscribe_to(d, pending, ok) ELSE d

\* ==================================================================
\* QuoteManager (market/quote_manager.py)
\* ==================================================================
\* the *_ENABLED settings, each with its API key present
QMSettings == [fugle : BOOLEAN, finnhub : BOOLEAN, polygon : BOOLEAN, shioaji : BOOLEAN]

QMInit ==
    [ phase    |-> "new",      \* "new", "constructed", "started", "stopped"
      settings |-> [fugle |-> FALSE, finnhub |-> FALSE, polygon |-> FALSE, shioaji |-> FALSE],
      running  |-> FALSE,
      fugle_client     |-> FALSE,   \* the attribute is set
      finnhub_client   |-> FALSE,
      polygon_fallback |-> FALSE,
      shioaji_client   |-> FALSE,
      subscription     |-> FALSE,
      shioaji  |-> ShioajiInit,
      login    |-> "none",     \* the Shioaji login thread: "none", "running", "ended"
      h_fugle  |-> {},         \* tickers the Fugle client holds after the subscribe/unsubscribe calls
      h_log    |-> <<>>,       \* start/stop calls made on the components, in order
      h_route  |-> [tickers |-> {}, to |-> {}, shioaji_connected |-> FALSE] ]

\* __init__ reads the settings; init_monitor constructs the QuoteManager only
\* when a WebSocket feed is enabled
QM_construct(settings) ==
    /\ qm.phase = "new"
    /\ settings.fugle \/ settings.finnhub \/ settings.shioaji
    /\ qm' = [qm EXCEPT !.phase = "constructed", !.settings = settings]
    /\ UNCHANGED <<fh, fg, rc, al, pl, qs, wm, ru, pp, rs, dc, ca, pt>>

\* _handle_subscribe(tickers)
QM_handle_subscribe_to(q, T, ok) ==
    LET to_shioaji == q.shioaji_client /\ q.shioaji.connected
        to_fugle   == ~to_shioaji /\ q.fugle_client
    IN  [q EXCEPT !.shioaji = IF to_shioaji THEN Shioaji_subscribe_to(@, T, ok) ELSE @,
                  !.h_fugle = IF to_fugle THEN @ \cup T ELSE @,
                  !.h_route = [tickers |-> T,
                               to |-> (IF to_shioaji THEN {"shioaji"} ELSE {})
                                      \cup (IF to_fugle THEN {"fugle"} ELSE {}),
                               shioaji_connected |-> to_shioaji]]

\* start() up to the reconciler's start: the clients of the enabled feeds are
\* constructed and connected
QM_started(q) ==
    LET s == q.settings
    IN  [q EXCEPT
           !.phase = "started",
           !.running = TRUE,
           !.fugle_client = s.fugle,
           !.finnhub_client = s.finnhub,
           !.polygon_fallback = s.finnhub /\ s.polygon,
           !.shioaji_client = s.shioaji,
           !.shioaji = IF s.shioaji THEN Shioaji_connect_to(@) ELSE @,
           !.login = IF s.shioaji THEN "running" ELSE "none",
           !.subscription = TRUE,
           !.h_log = (IF s.fugle THEN <<"fugle.connect">> ELSE <<>>)
                     \o (IF s.finnhub THEN <<"finnhub.connect">> ELSE <<>>)
                     \o (IF s.shioaji THEN <<"shioaji.connect">> ELSE <<>>)
                     \o <<"reconciler.start">>]

\* start(); T: the subscribe delta of the reconciler's immediate scan
QM_start(T, ok) ==
    /\ qm.phase = "constructed"
    /\ qm' = IF T /= {} THEN QM_handle_subscribe_to(QM_started(qm), T, ok)
             ELSE QM_started(qm)
    /\ UNCHANGED <<fh, fg, rc, al, pl, qs, wm, ru, pp, rs, dc, ca, pt>>

\* the Shioaji login thread ends
QM_shioaji_do_login(outcome, ok) ==
    /\ qm.login = "running"
    /\ qm' = [qm EXCEPT !.login = "ended",
                        !.shioaji = Shioaji_do_login(@, outcome, ok)]
    /\ UNCHANGED <<fh, fg, rc, al, pl, qs, wm, ru, pp, rs, dc, ca, pt>>

\* a periodic scan of the reconciler emits a subscribe delta
QM_handle_subscribe(T, ok) ==
    /\ qm.phase = "started"
    /\ T /= {}
    /\ qm' = QM_handle_subscribe_to(qm, T, ok)
    /\ UNCHANGED <<fh, fg, rc, al, pl, qs, wm, ru, pp, rs, dc, ca, pt>>

\* a periodic scan of the reconciler emits an unsubscribe delta
QM_handle_unsubscribe_from(q, T, ok) ==
    [q EXCEPT !.shioaji = IF q.shioaji_client THEN Shioaji_unsubscribe_from(@, T, ok) ELSE @,
              !.h_fugle = IF q.fugle_client THEN @ \ T ELSE @]

QM_handle_unsubscribe(T, ok) ==
    /\ qm.phase = "started"
    /\ T /= {}
    /\ qm' = QM_handle_unsubscribe_from(qm, T, ok)
    /\ UNCHANGED <<fh, fg, rc, al, pl, qs, wm, ru, pp, rs, dc, ca, pt>>

\* stop()
QM_stop ==
    /\ qm.phase = "started"
    /\ qm' = [qm EXCEPT
                !.phase = "stopped",
                !.running = FALSE,
                !.shioaji = IF qm.shioaji_client THEN Shioaji_disconnected(@) ELSE @,
                !.h_fugle = {},
                !.h_log = @ \o <<"reconciler.stop">>
                            \o (IF qm.fugle_client THEN <<"fugle.disconnect">> ELSE <<>>)
                            \o (IF qm.finnhub_client THEN <<"finnhub.disconnect">> ELSE <<>>)
                            \o (IF qm.polygon_fallback THEN <<"poller.stop">> ELSE <<>>)
                            \o (IF qm.shioaji_client THEN <<"shioaji.disconnect">> ELSE <<>>)]
    /\ UNCHANGED <<fh, fg, rc, al, pl, qs, wm, ru, pp, rs, dc, ca, pt>>

QMNext ==
    \/ \E s \in QMSettings : QM_construct(s)
    \/ \E T \in SUBSET Symbols : \E ok \in SUBSET T : QM_start(T, ok)
    \/ \E o \in {"import_error", "login_failed", "ok"}, ok \in SUBSET Symbols :
          QM_shioaji_do_login(o, ok)
    \/ \E T \in SUBSET Symbols : \E ok \in SUBSET T : QM_handle_subscribe(T, ok)
    \/ \E T \in SUBSET Symbols : \E ok \in SUBSET T : QM_handle_unsubscribe(T, ok)
    \/ QM_stop

\* ==================================================================
\* disconnect() of the provider clients, called twice from any client state
\* ==================================================================
FugleStates ==
    [ stock : 0..MaxConns, conns : [Slots -> ConnStates],
      connected : BOOLEAN, should_run : BOOLEAN, subscribed : SUBSET Symbols,
      reconnect_delay : {Fugle_RECONNECT_BASE_DELAY},
      reconnect_timer : {"none", "pending"}, reconnecting : BOOLEAN,
      dr : {"idle", "init", "finally"},
      h_n : {0}, h_used : {0}, h_rl : {FALSE} ]

FinnhubStates ==
    [ ws : 0..MaxConns, conns : [Slots -> ConnStates],
      connected : BOOLEAN, should_run : BOOLEAN, subscribed : SUBSET Symbols,
      reconnect_delay : {Finnhub_RECONNECT_BASE_DELAY},
      timers : 0..MaxTimers,
      h_n : {0}, h_used : {0}, h_rl : {FALSE}, h_ctx : {"none"} ]

ShioajiStates ==
    [ api : BOOLEAN, connected : BOOLEAN, should_run : BOOLEAN, subscribed : SUBSET Symbols ]

DisconnectIdle ==
    [client |-> "none", state |-> ShioajiInit, calls |-> 0,
     h_start |-> ShioajiInit, h_first |-> ShioajiInit]

\* the client objects the model follows: the client and its state, not yet
\* disconnected
DisconnectCalls ==
    {[DisconnectIdle EXCEPT !.client = "fugle", !.state = c, !.h_start = c, !.h_first = c] :
        c \in FugleStates}
    \cup
    {[DisconnectIdle EXCEPT !.client = "finnhub", !.state = c, !.h_start = c, !.h_first = c] :
        c \in FinnhubStates}
    \cup
    {[DisconnectIdle EXCEPT !.client = "shioaji", !.state = c, !.h_start = c, !.h_first = c] :
        c \in ShioajiStates}

\* the record after one more disconnect() that left the client in state after
Disconnect_called(after) ==
    [dc EXCEPT !.state = after, !.calls = @ + 1,
               !.h_first = IF dc.calls = 0 THEN after ELSE @]

Disconnect_fugle ==
    /\ dc.client = "fugle"
    /\ dc.calls < 2
    /\ dc' = Disconnect_called(Fugle_disconnected(dc.state))
    /\ UNCHANGED <<fh, fg, rc, al, pl, qs, wm, ru, pp, rs, qm, ca, pt>>

Disconnect_finnhub ==
    /\ dc.client = "finnhub"
    /\ dc.calls < 2
    /\ dc' = Disconnect_called(Finnhub_disconnected(dc.state))
    /\ UNCHANGED <<fh, fg, rc, al, pl, qs, wm, ru, pp, rs, qm, ca, pt>>

Disconnect_shioaji ==
    /\ dc.client = "shioaji"
    /\ dc.calls < 2
    /\ dc' = Disconnect_called(Shioaji_disconnected(dc.state))
    /\ UNCHANGED <<fh, fg, rc, al, pl, qs, wm, ru, pp, rs, qm, ca, pt>>

DisconnectNext ==
    \/ Disconnect_fugle
    \/ Disconnect_finnhub
    \/ Disconnect_shioaji

\* ==================================================================
\* Calls of a handler on the inputs it can be given
\* ==================================================================
CallIdle == [fn |-> "none"]

\* ------------------------------------------------------------------
\* DynamicSubscription._scan on arbitrary tables and previous sets
\* ------------------------------------------------------------------
\* consecutive scan cycles the model follows
MaxCycles == 2

\* reconcilers about to scan: the tables, _current_tw and _current_us
ScanStates ==
    { [ReconInit EXCEPT !.holdings = hs, !.targets = ts, !.running = TRUE,
                        !.current_tw = tw, !.current_us = us] :
        hs \in {x \in SUBSET HoldingRows : Cardinality(x) <= MaxRows},
        ts \in {x \in SUBSET RowTickers : Cardinality(x) <= MaxTargets},
        tw \in SUBSET {"A", "B"},
        us \in SUBSET {"A"} }

\* c: the reconciler; reads: for each cycle made, whether its two reads
\* succeeded; h_before: the reconciler before the last cycle
ScanCalls ==
    { [fn |-> "_scan", c |-> c, reads |-> <<>>, h_before |-> c] : c \in ScanStates }

\* one cycle of the loop: _scan() with the outcome of its two reads
Scan_cycle(holdingsOK, targetsOK) ==
    /\ ca.fn = "_scan"
    /\ Len(ca.reads) < MaxCycles
    /\ ca' = [ca EXCEPT !.c = Recon_scan(ca.c, holdingsOK, targetsOK),
                        !.reads = Append(@, <<holdingsOK, targetsOK>>),
                        !.h_before = ca.c]
    /\ UNCHANGED <<fh, fg, rc, al, pl, qs, wm, ru, pp, rs, qm, dc, pt>>

ScanNext == \E h \in BOOLEAN, t \in BOOLEAN : Scan_cycle(h, t)

\* ------------------------------------------------------------------
\* PolygonFallback._poll_prices on arbitrary snapshots
\* ------------------------------------------------------------------
PollTickers == {"AAPL", "MSFT", "NVDA"}

\* a market_data row written before the poll
PollOldRow == [current_price |-> 50, realtime_price |-> 50, update_source |-> "finnhub_ws"]

\* tickers: self._tickers; http_ok: the GET returned a snapshot; items: the
\* lastTrade.p of each ticker in the response; fails: tickers whose upsert
\* raises; rows: market_data; poll_count: self._poll_count
PollCalls ==
    UNION { UNION { [ fn : {"_poll_prices"}, tickers : {S}, http_ok : BOOLEAN,
                      items : [R -> PriceVals], fails : SUBSET R,
                      rows : [PollTickers -> {NoRow, PollOldRow}],
                      poll_count : {0}, done : {FALSE},
                      h_rows : {[t \in PollTickers |-> NoRow]} ] :
                    R \in SUBSET S } :
            S \in (SUBSET PollTickers) \ {{}} }

\* "if not ticker or not price or float(price) <= 0: continue"
Polygon_item_valid(ticker, price) ==
    ticker /= "" /\ price /= Absent /\ price /= 0 /\ price > 0

\* whether the poll reaches "self._poll_count += 1": the exception of an
\* upsert is caught inside the loop
Polygon_poll_counted_unless_write_fails(http_ok, fails) == http_ok /\ fails = {}

Polygon_poll_counted(http_ok, fails) == http_ok

\* market_data after the loop over the items of the response
Polygon_rows_after(rows, items, fails) ==
    [t \in PollTickers |->
        IF t \in DOMAIN items /\ Polygon_item_valid(t, items[t]) /\ t \notin fails
        THEN [current_price |-> items[t], realtime_price |-> items[t],
              update_source |-> "polygon_rest"]
        ELSE rows[t]]

\* _poll_prices()
Poll_prices ==
    /\ ca.fn = "_poll_prices"
    /\ ~ca.done
    /\ ca' = [ca EXCEPT
                !.rows = IF ca.http_ok THEN Polygon_rows_after(ca.rows, ca.items, ca.fails)
                         ELSE ca.rows,
                !.poll_count = IF Polygon_poll_counted(ca.http_ok, ca.fails) THEN @ + 1 ELSE @,
                !.done = TRUE,
                !.h_rows = ca.rows]
    /\ UNCHANGED <<fh, fg, rc, al, pl, qs, wm, ru, pp, rs, qm, dc, pt>>

PollNext == Poll_prices

\* ------------------------------------------------------------------
\* The deduplication step of _process_alerts on a long history
\* ------------------------------------------------------------------
\* alerts of other keys recorded after the alert in question
MaxOthers == 200
\* the time of the evaluation and the ages, in minutes, of the recorded alert
DedupNow == 1000
DedupAges == {1, 30, 59, 60, 90}

DedupAlert == AlertEvent("u1", "X", "tp_triggered", 110, 120)

\* age: minutes since the alert of DedupAlert's key was recorded; others:
\* alerts of other keys recorded since; out: the alerts that survive
DedupCalls ==
    [ fn : {"deduplicate_alerts"}, age : DedupAges, others : 0..MaxOthers,
      done : {FALSE}, out : {<<>>} ]

\* table price_alerts in insertion order: the record of the key, then the
\* records of the other keys
Dedup_history(age, others) ==
    <<[user_id |-> "u1", ticker |-> "X", alert_type |-> "tp_triggered",
       triggered_at |-> DedupNow - age]>>
    \o [k \in 1..others |->
          [user_id |-> "u2", ticker |-> "Y", alert_type |-> "sl_triggered",
           triggered_at |-> DedupNow]]

\* _process_alerts: the read of the newest rows and deduplicate_alerts, for
\* a cycle in which the condition of DedupAlert triggers again
Dedup_call ==
    /\ ca.fn = "deduplicate_alerts"
    /\ ~ca.done
    /\ ca' = [ca EXCEPT
                !.out = deduplicate_alerts(<<DedupAlert>>,
                            Alert_recent_read(Dedup_history(ca.age, ca.others)), DedupNow),
                !.done = TRUE]
    /\ UNCHANGED <<fh, fg, rc, al, pl, qs, wm, ru, pp, rs, qm, dc, pt>>

DedupNext == Dedup_call

\* ------------------------------------------------------------------
\* Job alert_check on arbitrary market_data rows
\* ------------------------------------------------------------------
EvalTW == "2330"
EvalUS == "AAPL"
EvalRegion(ticker) == IF ticker = EvalUS THEN "US" ELSE "TPE"

\* portfolio_holdings rows of the two regions
EvalTWHolding ==
    [user_id |-> "u1", ticker |-> EvalTW, shares |-> 10, cost_price |-> 5220,
     strategy_mode |-> "auto", manual_tp |-> 0, manual_sl |-> 0, high_watermark_price |-> 0]
EvalUSHolding ==
    [user_id |-> "u1", ticker |-> EvalUS, shares |-> 10, cost_price |-> 10000,
     strategy_mode |-> "auto", manual_tp |-> 0, manual_sl |-> 0, high_watermark_price |-> 0]

\* market_open: twstock_fetcher.is_market_open(); prices: current_price of
\* the market_data row of each ticker, NoPrice for a row without a price;
\* holdings: table portfolio_holdings; out: the alerts of the cycle
EvalCalls ==
    [ fn : {"alert_check"}, market_open : BOOLEAN,
      prices : [{EvalTW, EvalUS} -> {NoPrice, 5000, 5230, 5800, 9000, 10500, 12000}],
      holdings : {<<EvalUSHolding>>, <<EvalTWHolding, EvalUSHolding>>},
      done : {FALSE}, out : {<<>>} ]

\* the snapshot alert_check builds: rows of region TPE with a positive price
Eval_current_prices(prices) ==
    [t \in {x \in DOMAIN prices :
               EvalRegion(x) = "TPE" /\ prices[x] /= NoPrice /\ prices[x] > 0} |-> prices[t]]

\* alert_check(), with _process_alerts up to the alerts it computes (no
\* advisory target, empty alert history)
Eval_alert_check ==
    /\ ca.fn = "alert_check"
    /\ ~ca.done
    /\ LET current_prices == Eval_current_prices(ca.prices)
       IN  ca' = [ca EXCEPT
                    !.out = IF ~ca.market_open \/ DOMAIN current_prices = {}
                            THEN <<>>
                            ELSE check_portfolio_alerts(current_prices, ca.holdings),
                    !.done = TRUE]
    /\ UNCHANGED <<fh, fg, rc, al, pl, qs, wm, ru, pp, rs, qm, dc, pt>>

EvalNext == Eval_alert_check

\* ------------------------------------------------------------------
\* _process_alerts with failing external calls
\* ------------------------------------------------------------------
\* alerts one cycle of the scenario can dispatch
MaxAlerts == 3
ProcNow == 1000

\* what happens to the k-th surviving alert: every call succeeds, or the
\* LINE push, the Telegram push or the insert raises
ProcOutcomes == {"ok", "line_raises", "telegram_raises", "insert_raises"}

\* price: current price of X; targets: the latest price_targets rows, one
\* or two of the same user and ticker; the *OK flags say whether the table
\* read succeeded; recent: alert kinds of (u1, X) with a record in the
\* cooldown window; pushed and recorded: what the cycle did
ProcCalls ==
    [ fn : {"_process_alerts"}, price : Prices,
      targets : {AlertTargetRows, AlertTargetRows \o AlertTargetRows},
      holdingsOK : BOOLEAN, targetsOK : BOOLEAN, historyOK : BOOLEAN,
      recent : SUBSET {"defense_breach", "tp_triggered"},
      outcome : [1..MaxAlerts -> ProcOutcomes],
      done : {FALSE}, pushed : {<<>>}, recorded : {<<>>} ]

\* table price_alerts: one record a minute old for each kind in recent
Proc_history(recent) ==
    (IF "defense_breach" \in recent
     THEN <<[user_id |-> "u1", ticker |-> "X", alert_type |-> "defense_breach",
             triggered_at |-> ProcNow - 1]>> ELSE <<>>)
    \o (IF "tp_triggered" \in recent
        THEN <<[user_id |-> "u1", ticker |-> "X", alert_type |-> "tp_triggered",
                triggered_at |-> ProcNow - 1]>> ELSE <<>>)

\* the two rule sets where a failure of either empties both
Proc_all_alerts_fail_together(current_prices, targets, holdingsOK, targetsOK) ==
    IF holdingsOK /\ targetsOK
    THEN check_advisory_alerts(current_prices, targets)
         \o check_portfolio_alerts(current_prices, AlertHoldingRows)
    ELSE <<>>

\* all_alerts: each rule set in its own try/except
Proc_all_alerts(current_prices, targets, holdingsOK, targetsOK) ==
    LET portfolio_alerts == IF holdingsOK
                            THEN check_portfolio_alerts(current_prices, AlertHoldingRows) ELSE <<>>
        advisory_alerts  == IF targetsOK
                            THEN check_advisory_alerts(current_prices, targets) ELSE <<>>
    IN  advisory_alerts \o portfolio_alerts

\* the channels that end up in notified_via
Proc_via(outcome) ==
    (IF outcome = "line_raises" THEN {} ELSE {"line"})
    \cup (IF outcome = "telegram_raises" THEN {} ELSE {"telegram"})

\* _process_alerts(current_prices)
Proc_process_alerts ==
    /\ ca.fn = "_process_alerts"
    /\ ~ca.done
    /\ LET all_alerts == Proc_all_alerts([t \in {"X"} |-> ca.price], ca.targets,
                                         ca.holdingsOK, ca.targetsOK)
           survivors  == IF all_alerts = <<>> THEN <<>>
                         ELSE IF ca.historyOK
                              THEN deduplicate_alerts(all_alerts,
                                       Alert_recent_read(Proc_history(ca.recent)), ProcNow)
                              ELSE all_alerts
           n   == Len(survivors)
           via == [k \in 1..n |-> Proc_via(ca.outcome[k])]
           ins == [k \in 1..n |-> ca.outcome[k] /= "insert_raises"]
       IN  ca' = [ca EXCEPT
                    !.pushed   = [k \in 1..n |-> [event |-> survivors[k], via |-> via[k]]],
                    !.recorded = Alert_records(survivors, via, ins, ProcNow),
                    !.done     = TRUE]
    /\ UNCHANGED <<fh, fg, rc, al, pl, qs, wm, ru, pp, rs, qm, dc, pt>>

ProcNext == Proc_process_alerts

\* ==================================================================
\* The reconciler's deltas delivered to the Taiwan clients
\* (DynamicSubscription._scan calling QuoteManager._handle_subscribe /
\* _handle_unsubscribe)
\* ==================================================================
\* rows of portfolio_holdings the application writes in this part
DeltaRows == [ticker : Symbols, region : {"TPE"}]
\* the settings of the Taiwan feeds
DeltaSettings == {s \in QMSettings : ~s.finnhub /\ ~s.polygon}

\* the callbacks of one scan, run in order against the QuoteManager
RECURSIVE Delta_deliver(_, _, _)
Delta_deliver(q, calls, ok) ==
    IF calls = <<>> THEN q
    ELSE LET c == Head(calls)
             q1 == IF c.op = "subscribe" THEN QM_handle_subscribe_to(q, c.tickers, ok)
                   ELSE QM_handle_unsubscribe_from(q, c.tickers, ok)
         IN  Delta_deliver(q1, Tail(calls), ok)

\* QuoteManager.start(): the clients, then DynamicSubscription.start() with
\* its immediate scan
Delta_start(holdingsOK, targetsOK, ok) ==
    /\ qm.phase = "constructed"
    /\ ~rc.running
    /\ rc' = Recon_scan([rc EXCEPT !.running = TRUE], holdingsOK, targetsOK)
    /\ qm' = Delta_deliver(QM_started(qm), rc'.calls, ok)
    /\ UNCHANGED <<fh, fg, al, pl, qs, wm, ru, pp, rs, dc, ca, pt>>

\* one iteration of _scan_loop with its callbacks
Delta_scan(holdingsOK, targetsOK, ok) ==
    /\ qm.phase = "started"
    /\ rc.running
    /\ rc' = Recon_scan(rc, holdingsOK, targetsOK)
    /\ qm' = Delta_deliver(qm, rc'.calls, ok)
    /\ UNCHANGED <<fh, fg, al, pl, qs, wm, ru, pp, rs, dc, ca, pt>>

\* the symbols held (queued or subscribed) by the constructed Taiwan clients
Delta_held ==
    (IF qm.shioaji_client THEN qm.shioaji.subscribed ELSE {})
        \cup (IF qm.fugle_client THEN qm.h_fugle ELSE {})

DeltaNext ==
    \/ \E s \in DeltaSettings : QM_construct(s)
    \/ \E h \in BOOLEAN, t \in BOOLEAN : \E ok \in SUBSET Symbols : Delta_start(h, t, ok)
    \/ \E h \in BOOLEAN, t \in BOOLEAN : \E ok \in SUBSET Symbols : Delta_scan(h, t, ok)
    \/ \E o \in {"import_error", "login_failed", "ok"}, ok \in SUBSET Symbols :
          QM_shioaji_do_login(o, ok)
    \/ \E row \in DeltaRows : Recon_db_add_holding(row)
    \/ \E row \in DeltaRows : Recon_db_remove_holding(row)
    \/ \E t \in Symbols : Recon_db_add_target(t)
    \/ \E t \in Symbols : Recon_db_remove_target(t)

\* the scan loop keeps running and its reads and SDK calls succeed whenever
\* they are tried again; the login thread ends with a successful login
DeltaFairness ==
    /\ WF_vars(Delta_scan(TRUE, TRUE, Symbols))
    /\ WF_vars(QM_shioaji_do_login("ok", Symbols))

\* ==================================================================
\* init_monitor with the enable flags and the credentials
\* (monitor/stock_monitor.py, QuoteManager.start)
\* ==================================================================
\* one startup: the settings it reads, then what it constructed and scheduled
StartupCalls ==
    [ fn : {"init_monitor"},
      FUGLE_ENABLED : BOOLEAN, FINNHUB_ENABLED : BOOLEAN, SHIOAJI_ENABLED : BOOLEAN,
      FUGLE_API_KEY : BOOLEAN,          \* TRUE: a non-empty value
      SHIOAJI_API_KEY : BOOLEAN, SHIOAJI_SECRET_KEY : BOOLEAN,
      done : {FALSE}, quote_manager : {FALSE},
      fugle_client : {FALSE}, shioaji_client : {FALSE}, jobs : {{}} ]

\* _start_fugle constructs the client only with an API key
Startup_start_fugle(c) == c.FUGLE_ENABLED /\ c.FUGLE_API_KEY

\* _start_shioaji constructs the client only with both credentials
Startup_start_shioaji(c) == c.SHIOAJI_ENABLED /\ c.SHIOAJI_API_KEY /\ c.SHIOAJI_SECRET_KEY

\* the jobs init_monitor adds to the scheduler
Startup_jobs(c) ==
    {"alert_check", "daily_tw_close", "daily_us_close", "monthly_report"}
        \cup (IF ~c.FUGLE_ENABLED /\ ~c.SHIOAJI_ENABLED
              THEN {"realtime_tw_fallback"} ELSE {})

Startup_init_monitor ==
    /\ ca.fn = "init_monitor"
    /\ ~ca.done
    /\ LET any_ws_enabled == ca.FUGLE_ENABLED \/ ca.FINNHUB_ENABLED \/ ca.SHIOAJI_ENABLED
       IN  ca' = [ca EXCEPT !.done = TRUE,
                            !.quote_manager = any_ws_enabled,
                            !.fugle_client = any_ws_enabled /\ Startup_start_fugle(ca),
                            !.shioaji_client = any_ws_enabled /\ Startup_start_shioaji(ca),
                            !.jobs = Startup_jobs(ca)]
    /\ UNCHANGED <<fh, fg, rc, al, pl, qs, wm, ru, pp, rs, qm, dc, pt>>

StartupNext == Startup_init_monitor

\* ==================================================================
\* Table price_targets and its importers
\* ==================================================================
\* imports the model follows
MaxImports == 3
\* (user_id, ticker) pairs targets are imported for
TargetKeys == {"u1/A", "u1/B"}
ImportOutcomes == {"ok", "update_raises", "insert_raises"}

\* rows: price_targets in insertion order, each [key, src, is_latest];
\* h_n: imports made
TargetsInit == [rows |-> <<>>, h_n |-> 0]

\* update({"is_latest": False}).eq(ticker).eq(user_id).eq("is_latest", True)
Targets_retire(rows, key) ==
    [k \in DOMAIN rows |->
        IF rows[k].key = key /\ rows[k].is_latest
        THEN [rows[k] EXCEPT !.is_latest = FALSE] ELSE rows[k]]

\* one stock of an import: retire, then insert; the two statements are
\* separate requests to the database and either can raise, which ends the
\* import of this stock. The handlers are coroutines of one event loop and
\* the client calls are synchronous, so no other handler runs in between.
Targets_import_stock(t, src, key, outcome) ==
    LET retired == IF outcome = "update_raises" THEN t.rows ELSE Targets_retire(t.rows, key)
    IN  [t EXCEPT !.rows = IF outcome = "ok"
                           THEN Append(retired, [key |-> key, src |-> src, is_latest |-> TRUE])
                           ELSE retired,
                  !.h_n = t.h_n + 1]

\* POST /api/parse/import: import_notifications
Targets_api_import(key, outcome) ==
    /\ pt.h_n < MaxImports
    /\ pt' = Targets_import_stock(pt, "api", key, outcome)
    /\ UNCHANGED <<fh, fg, rc, al, pl, qs, wm, ru, pp, rs, qm, dc, ca>>

\* line_handler._auto_import_notification
Targets_line_import(key, outcome) ==
    /\ pt.h_n < MaxImports
    /\ pt' = Targets_import_stock(pt, "line", key, outcome)
    /\ UNCHANGED <<fh, fg, rc, al, pl, qs, wm, ru, pp, rs, qm, dc, ca>>

\* telegram_handler._auto_import_notification
Targets_telegram_import(key, outcome) ==
    /\ pt.h_n < MaxImports
    /\ pt' = Targets_import_stock(pt, "telegram", key, outcome)
    /\ UNCHANGED <<fh, fg, rc, al, pl, qs, wm, ru, pp, rs, qm, dc, ca>>

TargetsNext ==
    \/ \E key \in TargetKeys, outcome \in ImportOutcomes : Targets_api_import(key, outcome)
    \/ \E key \in TargetKeys, outcome \in ImportOutcomes : Targets_line_import(key, outcome)
    \/ \E key \in TargetKeys, outcome \in ImportOutcomes : Targets_telegram_import(key, outcome)

\* ==================================================================
\* Specifications
\* ==================================================================
Init ==
    /\ fh = FinnhubInit
    /\ fg = FugleInit
    /\ rc = ReconInit
    /\ al = AlertInit
    /\ pl = PollerInit
    /\ qs = StoreInit
    /\ wm = WatermarkInit
    /\ ru = RulesIdle
    /\ pp = PipeInit
    /\ rs = ReconTaskInit
    /\ qm = QMInit
    /\ dc = DisconnectIdle
    /\ ca = CallIdle
    /\ pt = TargetsInit

SpecFinnhub == Init /\ [][FinnhubNext]_vars

SpecFugle == Init /\ [][FugleNext]_vars

SpecRecon == Init /\ [][ReconNext]_vars

SpecAlert == Init /\ [][AlertNext]_vars

SpecPoller == Init /\ [][PollerNext]_vars

SpecStore == Init /\ [][StoreNext]_vars
SpecHours == Init /\ [][HoursNext]_vars
SpecTargets == Init /\ [][TargetsNext]_vars
SpecReplay == Init /\ [][ReplayNext]_vars
SpecDelta == Init /\ [][DeltaNext]_vars /\ DeltaFairness

SpecWatermark == Init /\ [][WatermarkNext]_vars

\* the rule functions are checked from every call in RuleCalls
InitRules ==
    /\ fh = FinnhubInit
    /\ fg = FugleInit
    /\ rc = ReconInit
    /\ al = AlertInit
    /\ pl = PollerInit
    /\ qs = StoreInit
    /\ wm = WatermarkInit
    /\ ru \in RuleCalls
    /\ pp = PipeInit
    /\ rs = ReconTaskInit
    /\ qm = QMInit
    /\ dc = DisconnectIdle
    /\ ca = CallIdle
    /\ pt = TargetsInit

SpecRules == InitRules /\ [][RulesNext]_vars

SpecPipe == Init /\ [][PipeNext]_vars

SpecReconTask == Init /\ [][ReconTaskNext]_vars

SpecQM == Init /\ [][QMNext]_vars

\* disconnect() is checked from every client state in DisconnectCalls
InitDisconnect ==
    /\ fh = FinnhubInit
    /\ fg = FugleInit
    /\ rc = ReconInit
    /\ al = AlertInit
    /\ pl = PollerInit
    /\ qs = StoreInit
    /\ wm = WatermarkInit
    /\ ru = RulesIdle
    /\ pp = PipeInit
    /\ rs = ReconTaskInit
    /\ qm = QMInit
    /\ dc \in DisconnectCalls
    /\ ca = CallIdle
    /\ pt = TargetsInit

SpecDisconnect == InitDisconnect /\ [][DisconnectNext]_vars

\* _scan is checked from every reconciler state in ScanCalls
InitScan ==
    /\ fh = FinnhubInit
    /\ fg = FugleInit
    /\ rc = ReconInit
    /\ al = AlertInit
    /\ pl = PollerInit
    /\ qs = StoreInit
    /\ wm = WatermarkInit
    /\ ru = RulesIdle
    /\ pp = PipeInit
    /\ rs = ReconTaskInit
    /\ qm = QMInit
    /\ dc = DisconnectIdle
    /\ pt = TargetsInit
    /\ ca \in ScanCalls

SpecScan == InitScan /\ [][ScanNext]_vars

\* _poll_prices is checked on every snapshot in PollCalls
InitPoll ==
    /\ fh = FinnhubInit
    /\ fg = FugleInit
    /\ rc = ReconInit
    /\ al = AlertInit
    /\ pl = PollerInit
    /\ qs = StoreInit
    /\ wm = WatermarkInit
    /\ ru = RulesIdle
    /\ pp = PipeInit
    /\ rs = ReconTaskInit
    /\ qm = QMInit
    /\ dc = DisconnectIdle
    /\ pt = TargetsInit
    /\ ca \in PollCalls

SpecPoll == InitPoll /\ [][PollNext]_vars

\* the deduplication is checked on every history in DedupCalls
InitDedup ==
    /\ fh = FinnhubInit
    /\ fg = FugleInit
    /\ rc = ReconInit
    /\ al = AlertInit
    /\ pl = PollerInit
    /\ qs = StoreInit
    /\ wm = WatermarkInit
    /\ ru = RulesIdle
    /\ pp = PipeInit
    /\ rs = ReconTaskInit
    /\ qm = QMInit
    /\ dc = DisconnectIdle
    /\ pt = TargetsInit
    /\ ca \in DedupCalls

SpecDedup == InitDedup /\ [][DedupNext]_vars

\* alert_check is checked on every table content in EvalCalls
InitEval ==
    /\ fh = FinnhubInit
    /\ fg = FugleInit
    /\ rc = ReconInit
    /\ al = AlertInit
    /\ pl = PollerInit
    /\ qs = StoreInit
    /\ wm = WatermarkInit
    /\ ru = RulesIdle
    /\ pp = PipeInit
    /\ rs = ReconTaskInit
    /\ qm = QMInit
    /\ dc = DisconnectIdle
    /\ pt = TargetsInit
    /\ ca \in EvalCalls

SpecEval == InitEval /\ [][EvalNext]_vars

\* _process_alerts is checked on every combination of failures in ProcCalls
InitProc ==
    /\ fh = FinnhubInit
    /\ fg = FugleInit
    /\ rc = ReconInit
    /\ al = AlertInit
    /\ pl = PollerInit
    /\ qs = StoreInit
    /\ wm = WatermarkInit
    /\ ru = RulesIdle
    /\ pp = PipeInit
    /\ rs = ReconTaskInit
    /\ qm = QMInit
    /\ dc = DisconnectIdle
    /\ pt = TargetsInit
    /\ ca \in ProcCalls

SpecProc == InitProc /\ [][ProcNext]_vars

\* one call of init_monitor with any settings
InitStartup ==
    /\ fh = FinnhubInit
    /\ fg = FugleInit
    /\ rc = ReconInit
    /\ al = AlertInit
    /\ pl = PollerInit
    /\ qs = StoreInit
    /\ wm = WatermarkInit
    /\ ru = RulesIdle
    /\ pp = PipeInit
    /\ rs = ReconTaskInit
    /\ qm = QMInit
    /\ dc = DisconnectIdle
    /\ pt = TargetsInit
    /\ ca \in StartupCalls

SpecStartup == InitStartup /\ [][StartupNext]_vars

\* ==================================================================
\* Properties of the provider clients
\* ==================================================================

\* the delay min(base * 2^(N-1), ceiling) of the Nth consecutive reconnect
ExpectedDelay(base, n, ceiling) == Min(base * Pow2(n - 1), ceiling)

\* C1: with no data message and no rate-limit error in between, the delay
\* handed to the Nth consecutive scheduled reconnect is min(1 * 2^(N-1), ceiling),
\* so the first reconnect scheduled after a data message uses the base delay.
C1_BackoffSequence ==
    /\ (fh.h_n > 0 /\ ~fh.h_rl) =>
          fh.h_used = ExpectedDelay(Finnhub_RECONNECT_BASE_DELAY, fh.h_n,
                                    Finnhub_RECONNECT_MAX_DELAY)
    /\ (fg.h_n > 0 /\ ~fg.h_rl) =>
          fg.h_used = ExpectedDelay(Fugle_RECONNECT_BASE_DELAY, fg.h_n, Fugle_reconnect_max)

\* C2: the reconnect delay of a client is put back to the base delay only in
\* the step that receives a validated data message (a Finnhub trade, a Fugle
\* trade message), and the socket-open step never lowers it.
C2_ResetOnlyOnData ==
    [][ /\ (fh.reconnect_delay > Finnhub_RECONNECT_BASE_DELAY
              /\ fh'.reconnect_delay = Finnhub_RECONNECT_BASE_DELAY) =>
              \E i \in Slots : Finnhub_on_message(i, "trade")
        /\ (\E i \in Slots : Finnhub_on_open(i)) =>
              fh'.reconnect_delay >= fh.reconnect_delay
        /\ (fg.reconnect_delay > Fugle_RECONNECT_BASE_DELAY
              /\ fg'.reconnect_delay = Fugle_RECONNECT_BASE_DELAY) =>
              \E i \in Slots : Fugle_on_message(i, "data")
        /\ (\E i \in Slots : \E ok \in SUBSET fg.subscribed : Fugle_on_connect(i, ok)) =>
              fg'.reconnect_delay >= fg.reconnect_delay ]_vars

\* reconnects of a client that are pending (a started Timer) or in progress
\* (a Timer thread inside _do_reconnect)
Finnhub_reconnects == fh.timers
Fugle_reconnects ==
    (IF fg.reconnect_timer = "pending" THEN 1 ELSE 0) + (IF fg.dr /= "idle" THEN 1 ELSE 0)

\* C3: at most one reconnect of a client is pending or in progress at any time.
C3_SingleFlightReconnect ==
    /\ Finnhub_reconnects <= 1
    /\ Fugle_reconnects <= 1

\* C4: a client that was started and not stopped, and is not connected, has a
\* further connection attempt on its way: a pending reconnect Timer, a
\* reconnect in progress, or a connection whose open/close event is still due.
C4_RetryAlwaysPending ==
    /\ (fg.should_run /\ ~fg.connected) =>
          \/ fg.reconnect_timer = "pending"
          \/ fg.dr /= "idle"
          \/ \E i \in Slots : fg.conns[i] /= "free"
    /\ (fh.should_run /\ ~fh.connected) =>
          \/ fh.timers > 0
          \/ \E i \in Slots : fh.conns[i] /= "free"

\* C5: the replay on a successful connection leaves the subscribed set equal
\* to the desired set queued before it: no queued symbol is lost.
C5_ReplayKeepsDesiredSet ==
    [][ (\E i \in Slots : \E ok \in SUBSET fg.subscribed : Fugle_on_connect(i, ok))
            => fg'.subscribed = fg.subscribed ]_vars

\* ==================================================================
\* Properties of the reconciler
\* ==================================================================

\* C6: with P the known Taiwan watch set when a scan begins and N the set the
\* scan computes, the scan calls exactly subscribe(N \ P) when that is not
\* empty and unsubscribe(P \ N) when that is not empty, no call mentions a
\* symbol of P \cap N, there is no call at all when N = P, and afterwards the
\* known set is N.
C6_DeltaExact ==
    rc.h_scanned =>
        LET P == rc.h_P
            N == rc.h_N
            subs   == {k \in 1..Len(rc.calls) : rc.calls[k].op = "subscribe"}
            unsubs == {k \in 1..Len(rc.calls) : rc.calls[k].op = "unsubscribe"}
        IN  /\ \A k \in 1..Len(rc.calls) : rc.calls[k].op \in {"subscribe", "unsubscribe"}
            /\ IF N \ P = {} THEN subs = {}
               ELSE Cardinality(subs) = 1 /\ \A k \in subs : rc.calls[k].tickers = N \ P
            /\ IF P \ N = {} THEN unsubs = {}
               ELSE Cardinality(unsubs) = 1 /\ \A k \in unsubs : rc.calls[k].tickers = P \ N
            /\ \A k \in 1..Len(rc.calls) : rc.calls[k].tickers \cap (P \cap N) = {}
            /\ (N = P => rc.calls = <<>>)
            /\ rc.current_tw = N

\* a scan that added one symbol, dropped one and kept one
C6_Witness ==
    /\ rc.h_scanned
    /\ rc.h_N \ rc.h_P /= {}
    /\ rc.h_P \ rc.h_N /= {}
    /\ rc.h_P \cap rc.h_N /= {}
    /\ Len(rc.calls) = 2

\* ==================================================================
\* Properties of the alert pipeline
\* ==================================================================

\* C7: the same (user, instrument, alert_kind) is not handed to the channels
\* twice by two evaluation cycles less than the cooldown (60 minutes) apart;
\* a defense_breach delivered for X is not delivered again half an hour later.
C7_DedupCooldown ==
    \A i \in 1..Len(al.h_disp) : \A j \in 1..Len(al.h_disp) :
        (/\ i < j
         /\ AlertKey(al.h_disp[i].event) = AlertKey(al.h_disp[j].event)
         /\ al.h_disp[i].via /= {} /\ al.h_disp[j].via /= {})
        => al.h_disp[j].at - al.h_disp[i].at >= COOLDOWN_MINUTES

\* C8: every alert that survived deduplication has a row in the alert history
\* written by the same cycle, carrying the channels that reported success
\* (possibly none).
C8_DispatchedIsRecorded ==
    \A i \in 1..Len(al.h_disp) :
        \E k \in 1..Len(al.history) :
            /\ <<al.history[k].user_id, al.history[k].ticker, al.history[k].alert_type>>
                   = AlertKey(al.h_disp[i].event)
            /\ al.history[k].triggered_at = al.h_disp[i].at
            /\ al.history[k].notified_via = al.h_disp[i].via

\* ==================================================================
\* Properties of the fallback poller
\* ==================================================================

\* the watch loop has been running since before the companion went down and
\* is asleep between two iterations
Poller_settled ==
    /\ pl.pc = "sleep"
    /\ ~Poller_due
    /\ pl.h_started /= NoTime
    /\ pl.h_started <= pl.h_t0

\* C9: with the companion disconnected since t0 and still disconnected, the
\* poller is inactive at every time before t0 + 120 s and active at every
\* time from t0 + 120 s on.
C9_ActivationWindow ==
    (Poller_settled /\ ~fh.connected) =>
        /\ pl.now < pl.h_t0 + ACTIVATION_THRESHOLD => ~pl.active
        /\ pl.now >= pl.h_t0 + ACTIVATION_THRESHOLD => pl.active

\* C10: the companion is never connected while the poller's active flag is
\* true, and no poll writes to the store while the companion is connected.
C10_InactiveOnReconnect ==
    /\ ~(fh.connected /\ pl.active)
    /\ ~pl.h_poll_while_connected

\* ==================================================================
\* Properties of the quote store
\* ==================================================================

\* C11: a message or poll result that carries no positive trade price makes
\* its handler write nothing, also when it carries a bid and an ask; a price
\* a feed writes is one of the trade prices of its message, never the
\* bid/ask midpoint, and every stored feed price is strictly positive.
C11_NoMidpointPositiveOnly ==
    /\ qs.h_trade = {} => qs.h_wrote = {}
    /\ qs.h_wrote \subseteq qs.h_trade
    /\ qs.h_mid \notin qs.h_wrote
    /\ \A t \in StoreTickers :
          qs.rows[t].update_source /= "none" =>
              /\ qs.rows[t].current_price > 0
              /\ qs.rows[t].realtime_price > 0

\* a Fugle message with a book but without a trade price was handled and
\* nothing was written
C11_Witness ==
    /\ qs.h_src = "fugle_ws"
    /\ qs.h_mid /= Absent
    /\ qs.h_trade = {}
    /\ qs.h_wrote = {}

\* ==================================================================
\* Properties of the high watermark
\* ==================================================================

\* C12: whatever prices are observed and however the monitor's close job and
\* the backup update script interleave, the stored high_watermark_price of a
\* holding never decreases.
C12_WatermarkMonotone ==
    [][Wm_effective(wm'.hwm) >= Wm_effective(wm.hwm)]_vars

\* C13: in every evaluation cycle the watermark that TP is computed from is
\* the highest price observed for the holding so far, this cycle's price
\* included, or the cost if it was never exceeded.
C13_WatermarkCurrentInEvaluation ==
    wm.h_eval =>
        /\ wm.h_used = wm.h_max
        /\ wm.h_tp = Max((WmCost * 11) \div 10, (wm.h_max * 9) \div 10)

\* ==================================================================
\* Properties of the rule functions
\* ==================================================================

\* the alerts of a result, as a set of (kind, trigger_price, current_price)
Rules_out_of(user_id) ==
    {<<ru.out[k].alert_type, ru.out[k].trigger_price, ru.out[k].current_price>> :
        k \in {j \in 1..Len(ru.out) : ru.out[j].user_id = user_id}}

\* C14: for a latest target whose instrument has a price, defense_breach is
\* emitted iff price <= defense_price (trigger_price = defense_price, observed
\* price = the current price), min_target_reached iff min_low <= price <=
\* min_high, reasonable_target_reached iff reasonable_low <= price <=
\* reasonable_high, each independently of the others; a target that is not
\* latest, or whose instrument has no price, yields nothing.
C14_AdvisoryRules ==
    (ru.fn = "check_advisory_alerts" /\ ru.done) =>
        LET t == ru.targets[1]
            p == ru.price
            live == t.is_latest /\ p /= NoPrice
            defense ==
                IF live /\ t.defense_price /= Absent /\ p <= t.defense_price
                THEN {<<"defense_breach", t.defense_price, p>>} ELSE {}
            min_target ==
                IF /\ live /\ t.min_target_low /= Absent /\ t.min_target_high /= Absent
                   /\ t.min_target_low <= p /\ p <= t.min_target_high
                THEN {<<"min_target_reached", t.min_target_low, p>>} ELSE {}
            reasonable ==
                IF /\ live /\ t.reasonable_target_low /= Absent
                   /\ t.reasonable_target_high /= Absent
                   /\ t.reasonable_target_low <= p /\ p <= t.reasonable_target_high
                THEN {<<"reasonable_target_reached", t.reasonable_target_low, p>>} ELSE {}
            expected == defense \cup min_target \cup reasonable
        IN  /\ Rules_out_of(t.user_id) = expected
            /\ Len(ru.out) = Cardinality(expected)

\* a price equal to the defense price fired defense_breach
C14_Witness ==
    /\ ru.fn = "check_advisory_alerts" /\ ru.done
    /\ ru.price = 150
    /\ \E k \in 1..Len(ru.out) :
          /\ ru.out[k].alert_type = "defense_breach"
          /\ ru.out[k].trigger_price = 150 /\ ru.out[k].current_price = 150

RECURSIVE Rules_sum(_)
Rules_sum(ns) == IF ns = <<>> THEN 0 ELSE Head(ns) + Rules_sum(Tail(ns))

RECURSIVE Rules_max(_)
Rules_max(ns) == IF ns = <<>> THEN 0 ELSE Max(Head(ns), Rules_max(Tail(ns)))

\* the alert kinds a position of a user must yield at price p: the lots are
\* those of the user, S their shares, C their cost (avg_cost = C / S), W
\* their highest watermark; comparisons with avg_cost * 1.1 and W * 0.9 are
\* written without division
Rules_expected_kinds(user_id, p) ==
    LET OfUser(h) == h.user_id = user_id
        lots == SelectSeq(ru.holdings, OfUser)
        S == Rules_sum([k \in 1..Len(lots) |-> lots[k].shares])
        C == Rules_sum([k \in 1..Len(lots) |-> lots[k].shares * lots[k].cost_price])
        W == Rules_max([k \in 1..Len(lots) |-> lots[k].high_watermark_price])
    IN  IF lots = <<>> \/ p = NoPrice \/ S <= 0 THEN {}
        ELSE LET first == lots[1]
                 manual == first.strategy_mode = "manual"
                 tp_hit == IF manual /\ first.manual_tp /= 0 THEN p >= first.manual_tp
                           ELSE /\ 10 * p * S >= 11 * C
                                /\ (~manual /\ W /= 0) => 10 * p >= 9 * W
                 sl_hit == IF manual /\ first.manual_sl /= 0 THEN p <= first.manual_sl
                           ELSE p * S <= C
             IN  (IF tp_hit THEN {"tp_triggered"} ELSE {})
                 \cup (IF sl_hit THEN {"sl_triggered"} ELSE {})

\* C15: for each (user, instrument) position aggregated over its lots, with
\* positive total shares and a known price, tp_triggered is emitted iff
\* price >= TP and sl_triggered iff price <= SL, where in auto mode
\* TP = max(avg_cost * 1.1, high_watermark * 0.9) and SL = avg_cost, the
\* share-weighted average cost, and in manual mode TP and SL are the values
\* the user set (an unset manual value falls back to avg_cost * 1.1, avg_cost).
C15_PositionRules ==
    (ru.fn = "check_portfolio_alerts" /\ ru.done) =>
        \A u \in {"u1", "u2"} :
            LET mine == {k \in 1..Len(ru.out) : ru.out[k].user_id = u}
            IN  /\ {ru.out[k].alert_type : k \in mine} = Rules_expected_kinds(u, ru.price)
                /\ Cardinality(mine) = Cardinality(Rules_expected_kinds(u, ru.price))
                /\ \A k \in mine : ru.out[k].current_price = ru.price /\ ru.out[k].ticker = "X"

\* two lots of one user with different costs were aggregated in auto mode
\* and the trailing take-profit fired at 0.9 of the watermark
C15_Witness ==
    /\ ru.fn = "check_portfolio_alerts" /\ ru.done
    /\ Len(ru.holdings) = 2
    /\ ru.holdings[1].user_id = ru.holdings[2].user_id
    /\ ru.holdings[1].cost_price /= ru.holdings[2].cost_price
    /\ ru.holdings[1].shares > 0 /\ ru.holdings[2].shares > 0
    /\ ru.holdings[1].strategy_mode = "auto"
    /\ ru.price = 360
    /\ \E k \in 1..Len(ru.out) :
          ru.out[k].alert_type = "tp_triggered" /\ ru.out[k].trigger_price = 360

\* ==================================================================
\* Properties of the single-flight rules, the orchestrator and disconnect()
\* ==================================================================
Pipe_in_flight == {t \in Triggers : pp.pc[t] \in {"line", "telegram"}}

\* C16: the alert evaluator is single-flight: at no time are two executions
\* of the alert pipeline (history read, deduplication, dispatch, record) in
\* progress at once, whichever trigger started them (the alert_check job, the
\* twstock polling job, the manual refresh endpoint), so two passes never
\* both read the history before either has recorded.
C16_EvaluatorSingleFlight == Cardinality(Pipe_in_flight) <= 1

\* C17: the reconciler is single-flight: the immediate scan of start() and
\* the periodic scans of the loop never overlap, and a periodic scan runs only
\* after the immediate scan has completed.
C17_ScansSequential ==
    /\ ~(rs.start_pc \in {"read", "emit"} /\ rs.task \in {"read", "emit"})
    /\ rs.task \in {"read", "emit"} => rs.h_immediate

\* a periodic scan is under way, after a completed immediate scan, while the
\* tracked set has changed
C17_Witness ==
    /\ rs.task = "emit" /\ rs.h_immediate /\ rs.h_scans >= 1
    /\ rs.task_tw /= rs.current

\* C18: every TPE subscribe delta is routed by the static priority rule: to
\* Shioaji if it is connected at that moment, otherwise to Fugle, never to
\* both (checked when a client for the TPE region is enabled).
C18_StaticPriorityRouting ==
    (qm.h_route.tickers /= {} /\ (qm.fugle_client \/ qm.shioaji_client)) =>
        qm.h_route.to = IF qm.h_route.shioaji_connected THEN {"shioaji"} ELSE {"fugle"}

QM_log_index(event) ==
    IF \E i \in 1..Len(qm.h_log) : qm.h_log[i] = event
    THEN CHOOSE i \in 1..Len(qm.h_log) : qm.h_log[i] = event
    ELSE 0

\* C19: on start every enabled provider client is started first, then the
\* fallback poller, then the reconciler; on stop the reconciler's and the
\* poller's loops are cancelled before any provider client is disconnected.
C19_StartStopOrder ==
    /\ qm.phase \in {"started", "stopped"} =>
          /\ \A e \in {"fugle.connect", "finnhub.connect", "shioaji.connect"} :
                QM_log_index(e) < QM_log_index("reconciler.start")
          /\ qm.polygon_fallback =>
                /\ QM_log_index("poller.start") > 0
                /\ QM_log_index("poller.start") < QM_log_index("reconciler.start")
                /\ \A e \in {"fugle.connect", "finnhub.connect", "shioaji.connect"} :
                      QM_log_index(e) < QM_log_index("poller.start")
    /\ qm.phase = "stopped" =>
          \A e \in {"fugle.disconnect", "finnhub.disconnect", "shioaji.disconnect"} :
              QM_log_index(e) > 0 =>
                  /\ QM_log_index("reconciler.stop") < QM_log_index(e)
                  /\ qm.polygon_fallback => QM_log_index("poller.stop") < QM_log_index(e)

\* C20: from any state, disconnect() leaves a provider client with
\* connected = false, an empty subscribed set and reconnection disabled, and
\* a second disconnect() right after the first changes no client state.
C20_DisconnectIdempotent ==
    /\ dc.calls >= 1 =>
          /\ ~dc.state.connected
          /\ dc.state.subscribed = {}
          /\ ~dc.state.should_run
          /\ dc.client = "fugle" => dc.state.reconnect_timer = "none"
    /\ dc.calls = 2 => dc.state = dc.h_first

\* a connected Finnhub client with queued tickers, allowed to reconnect, has
\* been disconnected twice
C20_Witness ==
    /\ dc.client = "finnhub" /\ dc.calls = 2
    /\ dc.h_start.connected /\ dc.h_start.should_run /\ dc.h_start.subscribed /= {}
    /\ dc.h_start.ws /= 0 /\ dc.h_start.conns[dc.h_start.ws] = "open"
    /\ dc.state /= dc.h_start

\* ==================================================================
\* Properties of a reconciliation cycle
\* ==================================================================
Scan_tickers(op) ==
    UNION {ca.c.calls[k].tickers : k \in {j \in 1..Len(ca.c.calls) : ca.c.calls[j].op = op}}

\* C21: when the read of one source (holdings or latest targets) fails in a
\* reconciliation, that source contributes the empty set for this cycle, the
\* symbols of the other source are still reconciled against the previously
\* known set, and the next cycle reads both sources again.
C21_FailedSourceIsEmpty ==
    (ca.fn = "_scan" /\ ca.reads /= <<>>) =>
        LET read == ca.reads[Len(ca.reads)]
            held == {r.ticker : r \in {x \in ca.c.holdings : x.region = "TPE" /\ x.ticker /= ""}}
            targeted == ca.c.targets \ {""}
            required == (IF read[1] THEN held ELSE {}) \cup (IF read[2] THEN targeted ELSE {})
        IN  /\ ca.c.current_tw = required
            /\ Scan_tickers("subscribe") = required \ ca.h_before.current_tw
            /\ Scan_tickers("unsubscribe") = ca.h_before.current_tw \ required

\* the holdings read failed in the first cycle, which still subscribed the
\* advisory target, and the second cycle read both and subscribed the holding
C21_Witness ==
    /\ ca.fn = "_scan" /\ Len(ca.reads) = 2
    /\ ca.reads[1] = <<FALSE, TRUE>> /\ ca.reads[2] = <<TRUE, TRUE>>
    /\ ca.c.targets = {"A"}
    /\ [ticker |-> "B", region |-> "TPE"] \in ca.c.holdings
    /\ ca.h_before.current_tw = {"A"}
    /\ ca.h_before.calls /= <<>>
    /\ ca.c.current_tw = {"A", "B"}
    /\ Scan_tickers("subscribe") = {"B"}

\* C26: for each region, the United States included, the symbols entering the
\* desired set are passed to the subscribe callback and the symbols leaving it
\* to the unsubscribe callback, so the US feed receives every delta.
C26_USDeltasDelivered ==
    (ca.fn = "_scan" /\ ca.reads /= <<>>) =>
        /\ Scan_tickers("subscribe") =
               (ca.c.current_tw \ ca.h_before.current_tw)
                   \cup (ca.c.current_us \ ca.h_before.current_us)
        /\ Scan_tickers("unsubscribe") =
               (ca.h_before.current_tw \ ca.c.current_tw)
                   \cup (ca.h_before.current_us \ ca.c.current_us)

\* ==================================================================
\* Properties of the reconnect delay after a rate-limit error
\* ==================================================================
\* C22: after a rate-limit-class error the next scheduled reconnect uses
\* exactly the client's backoff ceiling, the maximum that caps the doubling,
\* and the reconnect delay never exceeds that ceiling.
C22_RateLimitAtCeiling ==
    /\ fh.reconnect_delay <= Finnhub_RECONNECT_MAX_DELAY
    /\ fh.h_used <= Finnhub_RECONNECT_MAX_DELAY
    /\ fg.reconnect_delay <= Fugle_reconnect_max
    /\ fg.h_used <= Fugle_reconnect_max

\* ==================================================================
\* Properties of realtime prices and market hours
\* ==================================================================
\* C23: while the US market is closed (outside Mon-Fri 09:30-16:00 ET) a
\* trade message received by the Finnhub client causes no store write and no
\* price-update callback; it only updates the message statistics.
C23_ClosedMarketTradeDropped ==
    [][(qs'.h_count /= qs.h_count /\ ~qs.us_open) =>
          /\ qs'.rows = qs.rows
          /\ qs'.h_wrote = {}
          /\ qs'.h_cb = {}]_vars

\* a trade message with a positive price was counted while the session was
\* closed and wrote nothing
C23_Witness ==
    /\ qs.h_src = "finnhub_ws"
    /\ qs.h_type = "trade"
    /\ qs.h_trade /= {}
    /\ ~qs.us_open
    /\ qs.h_count = 1
    /\ qs.h_wrote = {}
    /\ qs.h_cb = {}
    /\ \A t \in StoreTickers : qs.rows[t] = NoRow

\* C24: every end-of-day close update sets realtime_price to null, and
\* realtime_price becomes non-null only through a live-feed write made while
\* the instrument's market is open: no writer sets it non-null outside
\* trading hours.
C24_RealtimeOnlyInHours ==
    [][\A t \in StoreTickers :
          /\ (qs'.h_src = "yfinance" /\ qs'.rows[t] /= qs.rows[t]) =>
                 qs'.rows[t].realtime_price = Absent
          /\ (qs'.rows[t] /= qs.rows[t] /\ qs'.rows[t].realtime_price /= Absent) =>
                 /\ Store_market_open(t)
                 /\ qs'.h_src \in {"fugle_ws", "finnhub_ws", "shioaji", "polygon_rest"}]_vars

\* ==================================================================
\* Properties of the latest price target
\* ==================================================================
\* C25: after any interleaving of target imports for the same (user,
\* instrument) through the API import, the LINE handler and the Telegram
\* handler, exactly one price_targets row of the pair has is_latest = true,
\* the superseded rows being kept with is_latest = false.
C25_ExactlyOneLatest ==
    \A key \in TargetKeys :
        (\E k \in DOMAIN pt.rows : pt.rows[k].key = key) =>
            Cardinality({k \in DOMAIN pt.rows : pt.rows[k].key = key /\ pt.rows[k].is_latest}) = 1

C28_AtMostOneLiveConnection ==
    /\ Cardinality(Live(fh.conns)) <= 1
    /\ Cardinality(Live(fg.conns)) <= 1

\* ==================================================================
\* Properties of the cooldown on a long history
\* ==================================================================
\* C29: an alert recorded in the history within the cooldown window
\* suppresses every re-trigger of the same (user, instrument, alert kind) in
\* that window, however many alerts of other keys were recorded since it.
C29_CooldownWhateverTheHistory ==
    (ca.fn = "deduplicate_alerts" /\ ca.done /\ ca.age < COOLDOWN_MINUTES) => ca.out = <<>>

\* ==================================================================
\* Properties of the price snapshot of an evaluation cycle
\* ==================================================================
\* C30: each evaluation cycle snapshots the current prices of every
\* exchange-region (TPE and US) and evaluates the rules against them: a US
\* holding whose stored price is at or above its take-profit or at or below
\* its stop-loss yields the corresponding alert in an evaluation cycle.
C30_USHoldingsEvaluated ==
    (/\ ca.fn = "alert_check" /\ ca.done /\ ca.market_open
     /\ ca.prices[EvalUS] /= NoPrice
     /\ \/ ca.prices[EvalUS] >= calculate_tp_sl(EvalUSHolding).tp
        \/ ca.prices[EvalUS] <= calculate_tp_sl(EvalUSHolding).sl)
    => \E k \in DOMAIN ca.out : ca.out[k].ticker = EvalUS

\* ==================================================================
\* Properties of one evaluation cycle with failing calls
\* ==================================================================
Proc_kinds(seq) == {seq[k].event.alert_type : k \in DOMAIN seq}

\* C31: within one evaluation cycle every external call is isolated: a
\* failure while evaluating one rule set, or while pushing or recording one
\* alert, does not prevent the other rule set from being evaluated nor the
\* remaining alerts of the cycle from being dispatched and recorded.
C31_FailuresIsolated ==
    (ca.fn = "_process_alerts" /\ ca.done) =>
        /\ (ca.holdingsOK /\ ca.price <= 5220) => "sl_triggered" \in Proc_kinds(ca.pushed)
        /\ (ca.holdingsOK /\ ca.price >= 5742 /\ ~(ca.historyOK /\ "tp_triggered" \in ca.recent))
               => "tp_triggered" \in Proc_kinds(ca.pushed)
        /\ (ca.targetsOK /\ ca.price <= 5300 /\ ~(ca.historyOK /\ "defense_breach" \in ca.recent))
               => "defense_breach" \in Proc_kinds(ca.pushed)
        /\ (ca.targetsOK /\ 5700 <= ca.price /\ ca.price <= 5900)
               => "min_target_reached" \in Proc_kinds(ca.pushed)
        /\ \A k \in DOMAIN ca.pushed :
              /\ ("line" \in ca.pushed[k].via) = (ca.outcome[k] /= "line_raises")
              /\ ("telegram" \in ca.pushed[k].via) = (ca.outcome[k] /= "telegram_raises")
              /\ (ca.outcome[k] /= "insert_raises") =>
                    \E j \in DOMAIN ca.recorded :
                        /\ ca.recorded[j].alert_type = ca.pushed[k].event.alert_type
                        /\ ca.recorded[j].notified_via = ca.pushed[k].via
        /\ Len(ca.recorded) =
               Cardinality({k \in DOMAIN ca.pushed : ca.outcome[k] /= "insert_raises"})

\* the read of the holdings failed and both advisory alerts were still
\* dispatched; the insert of the first raised, the LINE push of the second
\* raised, and the second was still pushed to Telegram and recorded
C31_Witness ==
    /\ ca.fn = "_process_alerts" /\ ca.done
    /\ ~ca.holdingsOK /\ ca.targetsOK /\ ca.historyOK
    /\ Len(ca.targets) = 2
    /\ ca.price = 5210
    /\ ca.recent = {}
    /\ ca.outcome[1] = "insert_raises" /\ ca.outcome[2] = "line_raises"
    /\ Len(ca.pushed) = 2
    /\ Len(ca.recorded) = 1
    /\ ca.recorded[1].notified_via = {"telegram"}

\* C37: if reading the alert history fails during an evaluation cycle, that
\* cycle dispatches no alert whose (user, instrument, alert kind) has a
\* history record within the cooldown window.
C37_FailedHistoryReadSuppresses ==
    (ca.fn = "_process_alerts" /\ ca.done /\ ~ca.historyOK) =>
        Proc_kinds(ca.pushed) \cap ca.recent = {}

\* C38: within a single evaluation cycle at most one alert per (user,
\* instrument, alert kind) is dispatched and recorded, even when the inputs
\* of the cycle produce several triggered alerts with the same key.
C38_OnePerKeyInCycle ==
    (ca.fn = "_process_alerts" /\ ca.done /\ ca.historyOK) =>
        /\ \A j, k \in DOMAIN ca.pushed :
              AlertKey(ca.pushed[j].event) = AlertKey(ca.pushed[k].event) => j = k
        /\ \A j, k \in DOMAIN ca.recorded :
              AlertKey(ca.recorded[j]) = AlertKey(ca.recorded[k]) => j = k

\* ==================================================================
\* Properties of the fallback poller's activation
\* ==================================================================
\* C32: the fallback poller becomes active only if its companion client has
\* been disconnected continuously for at least the activation threshold: if
\* the companion reconnects and disconnects again, the duration restarts
\* from the later disconnect, even when the brief reconnection falls between
\* two of the poller's checks.
C32_ActiveOnlyAfterContinuousOutage ==
    [][(~pl.active /\ pl'.active) =>
          /\ ~fh.connected
          /\ pl.now - pl.h_t0 >= ACTIVATION_THRESHOLD]_vars

\* ==================================================================
\* Properties of the threads that write a client's state
\* ==================================================================
\* C33: a provider client's shared state (subscribed set, connected flag,
\* message and health counters, reconnect delay) is written only on the
\* asyncio loop: handlers running on the provider's I/O or timer thread hand
\* off to the loop and never mutate that state directly.
C33_OnlyTheLoopWrites == fh.h_ctx \in {"none", "loop"}

\* C34: between the return of disconnect() and the next connect() (_should_run
\* is False throughout) the Fugle client opens no new upstream connection and
\* its connected flag does not become true
C34_NoConnectionAfterDisconnect ==
    [][(~fg.should_run /\ ~fg'.should_run)
         => /\ \A i \in Slots : fg.conns[i] = "free" => fg'.conns[i] = "free"
            /\ ~fg.connected => ~fg'.connected]_vars

\* C35: a symbol that unsubscribe() removed, and that no later subscribe() was
\* called for, is not in the Fugle client's subscribed set, whatever the
\* interleaving with the replay of _on_connect
C35_UnsubscribedStaysOut == fg.h_unsub \cap fg.subscribed = {}

\* C36: a symbol in the reconciler's known Taiwan set, while a Taiwan client is
\* constructed, is eventually held (queued or subscribed) by one of the
\* constructed Taiwan clients, unless it leaves the known set first
C36_KnownSymbolEventuallyHeld ==
    \A s \in Symbols :
        (s \in rc.current_tw /\ (qm.shioaji_client \/ qm.fugle_client))
            ~> (s \in Delta_held \/ s \notin rc.current_tw)

\* C39: after startup, whenever neither Taiwan streaming client (Fugle,
\* Shioaji) was constructed, the twstock polling job is scheduled
C39_TaiwanSourceAlwaysRuns ==
    (ca.fn = "init_monitor" /\ ca.done /\ ~ca.fugle_client /\ ~ca.shioaji_client)
        => "realtime_tw_fallback" \in ca.jobs

\* the aggregated position of a user in the lots of the call
Rules_position(user_id) ==
    LET OfUser(h) == h.user_id = user_id
        agg == Portfolio_aggregate(SelectSeq(ru.holdings, OfUser))
    IN  [agg EXCEPT !.cost_price = IF agg.total_shares > 0
                                   THEN agg.total_cost \div agg.total_shares ELSE 0]

Rules_users == {ru.holdings[k].user_id : k \in 1..Len(ru.holdings)}

Rules_auto_users ==
    {u \in Rules_users : /\ Rules_position(u).total_shares > 0
                         /\ Rules_position(u).strategy_mode = "auto"
                         /\ Rules_position(u).cost_price > 0}

\* C40: an auto-mode position with a positive average cost has TP > SL for
\* every watermark, and one check never emits both tp_triggered and
\* sl_triggered for it
C40_AutoTpAboveSl ==
    (ru.fn = "check_portfolio_alerts" /\ ru.done) =>
        \A u \in Rules_auto_users :
            /\ calculate_tp_sl(Rules_position(u)).tp > calculate_tp_sl(Rules_position(u)).sl
            /\ ~ \E a, b \in Rules_out_of(u) : a[1] = "tp_triggered" /\ b[1] = "sl_triggered"

C40_Witness ==
    /\ ru.fn = "check_portfolio_alerts" /\ ru.done
    /\ \E u \in Rules_auto_users :
          /\ Rules_position(u).high_watermark_price = 400
          /\ \E a \in Rules_out_of(u) : a[1] = "tp_triggered" /\ a[2] = 360

====
